---- MODULE Spec2Model ----
(***************************************************************************)
(* Model of the bioequivalence study planner (backend/): the evidence      *)
(* aggregation pipeline (core/parsing_module.py), the conservative         *)
(* estimator and design generation (core/design_module.py), the design     *)
(* calculator (services/calculator.py) and the background pipeline         *)
(* (main.py, _run_full_pipeline).                                           *)
(*                                                                         *)
(* Python strings are sequences of one-character strings, so that strip,   *)
(* lower, replace and the substring test are computed, not assumed.        *)
(* Python floats are records [k, n]: k = "num" carries the integer n,      *)
(* k = "nan" / "inf" / "ninf" are the IEEE specials, k = "none" is None.   *)
(***************************************************************************)
EXTENDS Integers, Sequences, FiniteSets, TLC

\* ------------------------------------------------------------------------
\* Bounds of the model (not program constants)
\* ------------------------------------------------------------------------
MaxObs == 2
MaxCv == 120
\* identifiers the general search can return; further identifiers only the
\* targeted search can return, also the most articles its fetch brings back
MaxArticles == 2
MaxNew == 2
\* keys in the adapter's response to an uploaded PDF
MaxPdfParams == 2
\* blanks put before and after a raw parameter name
MaxPad == 1
\* largest evaluable sample size handed to the recruitment adjustment
MaxSampleSize == 40
\* design-calculation requests made one after another
MaxRequests == 2
\* identifiers the targeted search of the enrichment pass can answer
MaxTargeted == 12
\* successive HTTP attempts of the extraction adapter the environment answers
MaxLlmAttempts == 2

\* ------------------------------------------------------------------------
\* Python str: sequences of characters
\* ------------------------------------------------------------------------
Upper == {"A", "C", "I", "M", "N", "T", "U", "V", "X", "cyr_P"}

LowerChar(c) ==
    CASE c = "A" -> "a" [] c = "C" -> "c" [] c = "I" -> "i" [] c = "M" -> "m"
      [] c = "N" -> "n" [] c = "T" -> "t" [] c = "U" -> "u" [] c = "V" -> "v"
      [] c = "X" -> "x" [] c = "cyr_P" -> "cyr_p"
      [] OTHER -> c

\* str.lower()
Lower(s) == [i \in 1..Len(s) |-> LowerChar(s[i])]

\* str.replace(" ", "_")
ReplaceSpace(s) == [i \in 1..Len(s) |-> IF s[i] = " " THEN "_" ELSE s[i]]

RECURSIVE LStrip(_)
LStrip(s) == IF s # << >> /\ Head(s) = " " THEN LStrip(Tail(s)) ELSE s

RECURSIVE RStrip(_)
RStrip(s) ==
    IF s # << >> /\ s[Len(s)] = " " THEN RStrip(SubSeq(s, 1, Len(s) - 1)) ELSE s

\* str.strip()
Strip(s) == RStrip(LStrip(s))

\* sub in s
Contains(s, sub) ==
    \E i \in 1..(Len(s) + 1) :
        /\ i + Len(sub) - 1 <= Len(s)
        /\ SubSeq(s, i, i + Len(sub) - 1) = sub

\* ------------------------------------------------------------------------
\* Python float
\* ------------------------------------------------------------------------
Num(n) == [k |-> "num", n |-> n]
NaN == [k |-> "nan", n |-> 0]
PInf == [k |-> "inf", n |-> 0]
NInf == [k |-> "ninf", n |-> 0]
NoneV == [k |-> "none", n |-> 0]

IsFinite(f) == f.k = "num"

\* a > b on floats: every comparison with NaN is false
FGt(a, b) ==
    CASE a.k = "nan" \/ b.k = "nan" -> FALSE
      [] a.k = "inf" -> b.k # "inf"
      [] a.k = "ninf" -> FALSE
      [] b.k = "inf" -> FALSE
      [] b.k = "ninf" -> TRUE
      [] OTHER -> a.n > b.n

FEq(a, b) == a.k # "nan" /\ b.k # "nan" /\ a = b
FGe(a, b) == FGt(a, b) \/ FEq(a, b)
FLt(a, b) == FGt(b, a)
FLe(a, b) == FGe(b, a)

\* bool(x) of a float
FTruthy(f) == ~(f.k = "num" /\ f.n = 0)

\* ------------------------------------------------------------------------
\* Values the extraction adapter can put in a JSON field, and the str() /
\* float() conversions applied to them
\* ------------------------------------------------------------------------
JNum(n) == [k |-> "num", n |-> n]
JNaN == [k |-> "nan", n |-> 0]
JInf == [k |-> "inf", n |-> 0]
JNegInf == [k |-> "ninf", n |-> 0]
JText == [k |-> "text", n |-> 0]
JNull == [k |-> "null", n |-> 0]
JTrue == [k |-> "bool", n |-> 1]
JList == [k |-> "obj", n |-> 0]

Raised == [ok |-> FALSE, f |-> NoneV]
Ok(f) == [ok |-> TRUE, f |-> f]

\* float(value) for a JSON value: numbers, numeric text, "nan" and "inf"
\* parse, True is 1.0, other text raises ValueError, None and containers
\* raise TypeError
PyFloat(v) ==
    CASE v.k = "num" -> Ok(Num(v.n))
      [] v.k = "nan" -> Ok(NaN)
      [] v.k = "inf" -> Ok(PInf)
      [] v.k = "ninf" -> Ok(NInf)
      [] v.k = "bool" -> Ok(Num(v.n))
      [] OTHER -> Raised

\* str(value): the text kept in DBDrugParameter.value; str(True) = "True",
\* str(None) = "None" and str([..]) are non-numeric texts
PyStr(v) ==
    CASE v.k \in {"num", "nan", "inf", "ninf"} -> [k |-> v.k, n |-> v.n]
      [] OTHER -> [k |-> "text", n |-> 0]

\* float(p.value) for the stored text
PyFloatOfStr(s) ==
    CASE s.k = "num" -> Ok(Num(s.n))
      [] s.k = "nan" -> Ok(NaN)
      [] s.k = "inf" -> Ok(PInf)
      [] s.k = "ninf" -> Ok(NInf)
      [] OTHER -> Raised

\* truthiness of the JSON "found" field
FoundVals == {"true", "false", "null", "missing", "one", "zero"}
Truthy(x) == x \in {"true", "one"}

\* ------------------------------------------------------------------------
\* Parameter names
\* ------------------------------------------------------------------------
S_Cmax == <<"C", "m", "a", "x">>
S_AUC == <<"A", "U", "C">>
S_Tmax == <<"T", "m", "a", "x">>
S_T12 == <<"T", "1", "/", "2">>
S_CV_intra == <<"C", "V", "_", "i", "n", "t", "r", "a">>
S_cmax == <<"c", "m", "a", "x">>
S_auc == <<"a", "u", "c">>
S_tmax == <<"t", "m", "a", "x">>
S_t12 == <<"t", "1", "/", "2">>
S_t1_2 == <<"t", "1", "_", "2">>
S_half_life == <<"h", "a", "l", "f", "_", "l", "i", "f", "e">>
S_half_dash_life == <<"h", "a", "l", "f", "-", "l", "i", "f", "e">>
S_cv_intra == <<"c", "v", "_", "i", "n", "t", "r", "a">>
S_cvintra == <<"c", "v", "i", "n", "t", "r", "a">>
S_intra_subject_cv ==
    <<"i", "n", "t", "r", "a", "_", "s", "u", "b", "j", "e", "c", "t", "_", "c", "v">>
S_intrasubject_cv ==
    <<"i", "n", "t", "r", "a", "s", "u", "b", "j", "e", "c", "t", "_", "c", "v">>
S_within_subject_cv ==
    <<"w", "i", "t", "h", "i", "n", "_", "s", "u", "b", "j", "e", "c", "t", "_", "c", "v">>
S_withinsubject_cv ==
    <<"w", "i", "t", "h", "i", "n", "s", "u", "b", "j", "e", "c", "t", "_", "c", "v">>

\* dict.get(key, default) on a table written as a sequence of <<key, value>>
RECURSIVE DictGet(_, _, _)
DictGet(table, key, default) ==
    IF table = << >> THEN default
    ELSE IF Head(table)[1] = key THEN Head(table)[2]
    ELSE DictGet(Tail(table), key, default)

\* core/parsing_module.py PARAM_NAME_ALIASES
Parsing_PARAM_NAME_ALIASES ==
    << <<S_cmax, S_Cmax>>, <<S_auc, S_AUC>>, <<S_tmax, S_Tmax>>,
       <<S_t12, S_T12>>, <<S_t1_2, S_T12>>, <<S_half_life, S_T12>>,
       <<S_half_dash_life, S_T12>>, <<S_cv_intra, S_CV_intra>>,
       <<S_cvintra, S_CV_intra>>, <<S_intra_subject_cv, S_CV_intra>>,
       <<S_intrasubject_cv, S_CV_intra>>, <<S_within_subject_cv, S_CV_intra>>,
       <<S_withinsubject_cv, S_CV_intra>> >>

\* core/design_module.py PARAM_NAME_ALIASES
Design_PARAM_NAME_ALIASES ==
    << <<S_cv_intra, S_CV_intra>>, <<S_cvintra, S_CV_intra>>,
       <<S_intra_subject_cv, S_CV_intra>>, <<S_intrasubject_cv, S_CV_intra>>,
       <<S_within_subject_cv, S_CV_intra>>, <<S_withinsubject_cv, S_CV_intra>>,
       <<S_t1_2, S_T12>>, <<S_half_life, S_T12>>, <<S_half_dash_life, S_T12>> >>

\* a lookup that does not fold the case of the key
CanonicalizeWith_case_sensitive(table, raw_name) ==
    LET key == Strip(raw_name)
        normalized == ReplaceSpace(key)
    IN  IF key = << >> THEN key ELSE DictGet(table, normalized, key)

\* the body shared by both _canonicalize_param_name functions
CanonicalizeWith(table, raw_name) ==
    LET key == Strip(raw_name)
        normalized == ReplaceSpace(Lower(key))
    IN  IF key = << >> THEN key ELSE DictGet(table, normalized, key)

\* ParsingModule._canonicalize_param_name
Parsing_canonicalize_param_name(raw_name) ==
    CanonicalizeWith(Parsing_PARAM_NAME_ALIASES, raw_name)

\* DesignModule._canonicalize_param_name
Design_canonicalize_param_name(raw_name) ==
    CanonicalizeWith(Design_PARAM_NAME_ALIASES, raw_name)

\* ------------------------------------------------------------------------
\* Candidates returned by the extraction adapter.  shape = "none" is a JSON
\* null, "other" any JSON value that is not an object, "dict" an object
\* with the fields found and value.
\* ------------------------------------------------------------------------
Cand(found, value) == [shape |-> "dict", found |-> found, value |-> value]
CandNone == [shape |-> "none", found |-> "missing", value |-> JNull]
CandOther == [shape |-> "other", found |-> "missing", value |-> JNull]

\* ParsingModule._is_valid_extracted_param
is_valid_extracted_param(param_data) ==
    IF param_data.shape # "dict" THEN FALSE
    ELSE IF ~Truthy(param_data.found) THEN FALSE
    ELSE PyFloat(param_data.value).ok

\* ------------------------------------------------------------------------
\* Stored observations (DBDrugParameter rows) and the Conservative Estimator
\* ------------------------------------------------------------------------
\* max(values) as Python evaluates it: keep the first item, replace it only
\* by a later item that compares greater
RECURSIVE PyMaxFrom(_, _)
PyMaxFrom(cur, rest) ==
    IF rest = << >> THEN cur
    ELSE PyMaxFrom(IF FGt(Head(rest), cur) THEN Head(rest) ELSE cur, Tail(rest))

PyMax(values) == PyMaxFrom(Head(values), Tail(values))

\* the rows the list comprehension of _get_most_conservative_value selects
SelectedRows(params, param_name) ==
    SelectSeq(params,
        LAMBDA p : Design_canonicalize_param_name(p.parameter) = param_name
                   /\ p.is_reliable)

\* DesignModule._get_most_conservative_value: float(p.value) is evaluated
\* for every selected row with nothing to catch a ValueError; the result
\* is [ok |-> FALSE] when the call raises, else the maximum or None
get_most_conservative_value(params, param_name) ==
    LET sel == SelectedRows(params, param_name)
        values == [i \in 1..Len(sel) |-> PyFloatOfStr(sel[i].value).f]
    IN  IF \E i \in 1..Len(sel) : ~PyFloatOfStr(sel[i].value).ok THEN Raised
        ELSE IF Len(sel) = 0 THEN Ok(NoneV)
        ELSE Ok(PyMax(values))

\* ------------------------------------------------------------------------
\* Design calculator (services/calculator.py)
\* ------------------------------------------------------------------------
S_2x2_crossover == <<"2", "x", "2", " ", "c", "r", "o", "s", "s", "o", "v", "e", "r">>
S_3way_replicate ==
    <<"3", "-", "w", "a", "y", " ", "r", "e", "p", "l", "i", "c", "a", "t", "e">>
S_4way_replicate ==
    <<"4", "-", "w", "a", "y", " ", "r", "e", "p", "l", "i", "c", "a", "t", "e">>
\* the Russian word returned for the parallel design, one token per letter
S_Parallel ==
    <<"cyr_P", "cyr_a", "cyr_r", "cyr_a", "cyr_l", "cyr_l", "cyr_e", "cyr_l",
      "cyr_soft", "cyr_n", "cyr_y", "cyr_j">>
M_2x2 == <<"2", "x", "2">>
M_crossover == <<"c", "r", "o", "s", "s", "o", "v", "e", "r">>
M_3way == <<"3", "-", "w", "a", "y">>
M_4way == <<"4", "-", "w", "a", "y">>
M_3 == <<"3">>
M_4 == <<"4">>
M_replicate == <<"r", "e", "p", "l", "i", "c", "a", "t", "e">>
M_parallel == <<"p", "a", "r", "a", "l", "l", "e", "l">>
M_parallel_ru ==
    <<"cyr_p", "cyr_a", "cyr_r", "cyr_a", "cyr_l", "cyr_l", "cyr_e", "cyr_l">>

\* 24.0 * 7.0 * 2.0 hours
LongHalfLife == 24 * 7 * 2
CvLow == 30
CvHigh == 50
MinSampleSize == 12

\* the test "float(t_half) >= 24.0 * 7.0 * 2.0" guarded by "is not None"
IsLongHalfLife(t_half) ==
    t_half.k # "none" /\ FGe(t_half, Num(LongHalfLife))

\* choose_design_type with the half-life compared by > instead of >=
choose_design_type_strict(cv_intra, t_half) ==
    IF t_half.k # "none" /\ FGt(t_half, Num(LongHalfLife)) THEN S_Parallel
    ELSE IF FLe(cv_intra, Num(CvLow)) THEN S_2x2_crossover
    ELSE IF FLt(Num(CvLow), cv_intra) /\ FLe(cv_intra, Num(CvHigh))
         THEN S_3way_replicate
    ELSE S_4way_replicate

\* BioeEquivalenceCalculator.choose_design_type
choose_design_type(cv_intra, t_half) ==
    IF IsLongHalfLife(t_half) THEN S_Parallel
    ELSE IF FLe(cv_intra, Num(CvLow)) THEN S_2x2_crossover
    ELSE IF FLt(Num(CvLow), cv_intra) /\ FLe(cv_intra, Num(CvHigh))
         THEN S_3way_replicate
    ELSE S_4way_replicate

\* design_explanation with the first CV band ending below 30
design_explanation_below_30(cv_intra, t_half, design_type) ==
    IF IsLongHalfLife(t_half) THEN "long_half_life"
    ELSE IF FLt(cv_intra, Num(CvLow)) THEN "cv_le_30"
    ELSE IF FLe(Num(CvLow), cv_intra) /\ FLe(cv_intra, Num(CvHigh))
         THEN "cv_30_50"
    ELSE "cv_gt_50"

\* BioeEquivalenceCalculator.design_explanation: the template chosen
design_explanation(cv_intra, t_half, design_type) ==
    IF IsLongHalfLife(t_half) THEN "long_half_life"
    ELSE IF FLe(cv_intra, Num(CvLow)) THEN "cv_le_30"
    ELSE IF FLt(Num(CvLow), cv_intra) /\ FLe(cv_intra, Num(CvHigh))
         THEN "cv_30_50"
    ELSE "cv_gt_50"

\* math.ceil(a / b) for b > 0
CeilDiv(a, b) == -((-a) \div b)

\* Fixed-point natural logarithm: y and the result are scaled by 10^4,
\* y >= 10^4.  ln(y) = k*ln 2 + 2*atanh((m-1)/(m+1)) with m = y/2^k in [1,2)
Ln2E4 == 6931
RECURSIVE LnE4(_)
LnE4(y) ==
    IF y >= 20000 THEN Ln2E4 + LnE4(y \div 2)
    ELSE LET z == ((y - 10000) * 10000) \div (y + 10000)
             z2 == (z * z) \div 10000
             t3 == (z * z2) \div 10000
             t5 == (t3 * z2) \div 10000
             t7 == (t5 * z2) \div 10000
         IN  2 * (z + (t3 \div 3) + (t5 \div 5) + (t7 \div 7))

\* z_alpha = 1.96 and z_beta = 0.84 in hundredths; theta2 / theta1 =
\* 1.25 / 0.80 scaled by 10^4
ZAlphaE2 == 196
ZBetaE2 == 84
ThetaRatioE4 == 15625

\* 2 * ((z_alpha + z_beta) / log_theta) ** 2, scaled by 10^2
SampleSizeCoefE2 ==
    LET ratioE3 == ((ZAlphaE2 + ZBetaE2) * 100000) \div LnE4(ThetaRatioE4)
    IN  (2 * ((ratioE3 * ratioE3) \div 1000)) \div 10

\* the choice of the divisor without the test for the Russian name
SeDivisor_latin_only(design_type) ==
    LET design == Lower(design_type)
    IN  IF Contains(design, M_2x2) \/ Contains(design, M_crossover) THEN 2
        ELSE IF Contains(design, M_3way)
                \/ (Contains(design, M_3) /\ Contains(design, M_replicate)) THEN 3
        ELSE IF Contains(design, M_4way)
                \/ (Contains(design, M_4) /\ Contains(design, M_replicate)) THEN 4
        ELSE IF Contains(design, M_parallel) THEN 1
        ELSE 2

\* the divisor d of se_factor = 1/d chosen from the design name
SeDivisor(design_type) ==
    LET design == Lower(design_type)
    IN  IF Contains(design, M_2x2) \/ Contains(design, M_crossover) THEN 2
        ELSE IF Contains(design, M_3way)
                \/ (Contains(design, M_3) /\ Contains(design, M_replicate)) THEN 3
        ELSE IF Contains(design, M_4way)
                \/ (Contains(design, M_4) /\ Contains(design, M_replicate)) THEN 4
        ELSE IF Contains(design, M_parallel_ru) \/ Contains(design, M_parallel) THEN 1
        ELSE 2

\* n_unrounded scaled by 10^6 for a finite cv_intra (in percent)
NUnroundedE6(cv, divisor) ==
    (SampleSizeCoefE2 * LnE4(10000 + cv * cv)) \div divisor

\* the rounding without the step to the next even number
RoundSampleSize_ceil_only(nE6, divisor) ==
    LET n == CeilDiv(nE6, 1000000)
    IN  IF n > MinSampleSize THEN n ELSE MinSampleSize

\* the rounding and the floor of calculate_sample_size_for_design
RoundSampleSize(nE6, divisor) ==
    LET n == IF divisor = 1 THEN CeilDiv(nE6, 1000000)
             ELSE CeilDiv(nE6, 2000000) * 2
    IN  IF n > MinSampleSize THEN n ELSE MinSampleSize

\* BioeEquivalenceCalculator.calculate_sample_size_for_design; math.ceil
\* raises for NaN (ValueError) and for an infinity (OverflowError)
calculate_sample_size_for_design(cv_intra, design_type) ==
    IF ~IsFinite(cv_intra) THEN [ok |-> FALSE, n |-> 0, design_type |-> design_type]
    ELSE [ok |-> TRUE,
          n |-> RoundSampleSize(NUnroundedE6(cv_intra.n, SeDivisor(design_type)),
                                SeDivisor(design_type)),
          design_type |-> design_type]

\* BioeEquivalenceCalculator.calculate_sample_size (2x2 crossover only)
calculate_sample_size(cv_intra) ==
    IF ~IsFinite(cv_intra) THEN [ok |-> FALSE, n |-> 0, design_type |-> S_2x2_crossover]
    ELSE LET n == CeilDiv(NUnroundedE6(cv_intra.n, 2), 2000000) * 2
         IN  [ok |-> TRUE,
              n |-> IF n > MinSampleSize THEN n ELSE MinSampleSize,
              design_type |-> S_2x2_crossover]

\* BioeEquivalenceCalculator.estimate_washout_period: ceil(t_half * 7 / 24)
estimate_washout_period(t_half) ==
    IF ~IsFinite(t_half) THEN Raised
    ELSE Ok(Num(CeilDiv(t_half.n * 7, 24)))

\* calculate_recruitment_sample_size.  Rates are floats; a rate that passes
\* the two range tests is a number in [0, 100] or NaN.
\*
\* adjustment_factor = (1 - dropout_rate / 100) * (1 - screen_fail_rate / 100)
\* is a binary64 double.  For whole-number rates d and s the exact factor is
\* a / 10^4 with a = (100 - d) * (100 - s); the double the four operations
\* produce lies in [2^-j, 2^(1-j)) and equals (a + T / 2^(52+j)) / 10^4.
\* AdjustmentFactorDouble gives T and j for the rates of RateValues.
RateValues == {0, 10, 20, 50, 80}

AdjustmentFactorDouble(d, s) ==
    LET lo == IF d < s THEN d ELSE s
        hi == IF d < s THEN s ELSE d
        p == <<lo, hi>>
    IN  CASE p = <<0, 0>> -> [T |-> 0, j |-> 0]
          [] p = <<0, 10>> -> [T |-> 2000, j |-> 1]
          [] p = <<0, 20>> -> [T |-> 4000, j |-> 1]
          [] p = <<0, 50>> -> [T |-> 0, j |-> 1]
          [] p = <<0, 80>> -> [T |-> -16000, j |-> 3]
          [] p = <<10, 10>> -> [T |-> 4800, j |-> 1]
          [] p = <<10, 20>> -> [T |-> 7600, j |-> 1]
          [] p = <<10, 50>> -> [T |-> 2000, j |-> 2]
          [] p = <<10, 80>> -> [T |-> -12400, j |-> 3]
          [] p = <<20, 20>> -> [T |-> 11200, j |-> 1]
          [] p = <<20, 50>> -> [T |-> 4000, j |-> 2]
          [] p = <<20, 80>> -> [T |-> -8800, j |-> 3]
          [] p = <<50, 50>> -> [T |-> 0, j |-> 2]
          [] p = <<50, 80>> -> [T |-> -16000, j |-> 4]
          [] p = <<80, 80>> -> [T |-> -28800, j |-> 5]

RECURSIVE Pow2(_)
Pow2(e) == IF e = 0 THEN 1 ELSE 2 * Pow2(e - 1)

RECURSIVE FloorLog2(_)
FloorLog2(k) == IF k < 2 THEN 0 ELSE 1 + FloorLog2(k \div 2)

\* int(math.ceil(sample_size / adjustment_factor)) for the double above.
\* The quotient is rounded to the nearest double before the ceiling: when
\* the exact quotient is not whole, or the double factor is not below the
\* exact one, the result is the exact ceiling; when the exact quotient is a
\* whole number K and the factor is below the exact one, the quotient is
\* above K and rounds back to K only if it is within half a unit in the
\* last place of K, that is if a * 2^(e+j-1) > K * (-T) with 2^e <= K.
CeilOfDoubleQuotient(sample_size, a, fd) ==
    IF (10000 * sample_size) % a # 0 THEN CeilDiv(10000 * sample_size, a)
    ELSE LET K == (10000 * sample_size) \div a
         IN  IF K = 0 \/ fd.T >= 0 THEN K
             ELSE IF a * Pow2(FloorLog2(K) + fd.j - 1) > K * (-fd.T) THEN K
             ELSE K + 1

RecruitError(msg) == [ok |-> FALSE, n |-> 0, error |-> msg]

calculate_recruitment_sample_size(sample_size, dropout_rate, screen_fail_rate) ==
    IF FLt(dropout_rate, Num(0)) \/ FGt(dropout_rate, Num(100))
    THEN RecruitError("dropout_rate must be between 0 and 100")
    ELSE IF FLt(screen_fail_rate, Num(0)) \/ FGt(screen_fail_rate, Num(100))
    THEN RecruitError("screen_fail_rate must be between 0 and 100")
    ELSE IF dropout_rate.k = "nan" \/ screen_fail_rate.k = "nan"
    THEN \* the factor is NaN, "NaN <= 0" is false, math.ceil(NaN) raises
         RecruitError("cannot convert float NaN to integer")
    ELSE LET a == (100 - dropout_rate.n) * (100 - screen_fail_rate.n)
         IN  IF a <= 0
             THEN RecruitError("dropout_rate + screen_fail_rate cannot equal or exceed 100%")
             ELSE [ok |-> TRUE,
                   n |-> CeilOfDoubleQuotient(
                             sample_size, a,
                             AdjustmentFactorDouble(dropout_rate.n,
                                                    screen_fail_rate.n)),
                   error |-> ""]

\* the methods class BioeEquivalenceCalculator defines
CalculatorMethods ==
    {"calculate_sample_size", "calculate_sample_size_for_design",
     "choose_design_type", "design_explanation", "estimate_washout_period",
     "estimate_blood_sampling", "calculate_recruitment_sample_size"}

\* ------------------------------------------------------------------------
\* The aggregated map: a dict in insertion order, written as a sequence of
\* [name, values]
\* ------------------------------------------------------------------------
MapHas(m, name) == \E i \in 1..Len(m) : m[i].name = name

\* m.get(name, [])
MapGet(m, name) ==
    IF MapHas(m, name)
    THEN (CHOOSE e \in {m[i] : i \in 1..Len(m)} : e.name = name).values
    ELSE << >>

\* m[name] = values: an existing list is replaced
MapExtend_replace(m, name, values) ==
    IF MapHas(m, name)
    THEN [i \in 1..Len(m) |->
             IF m[i].name = name
             THEN [name |-> name, values |-> values]
             ELSE m[i]]
    ELSE Append(m, [name |-> name, values |-> values])

\* m.setdefault(name, []).extend(values)
MapExtend(m, name, values) ==
    IF MapHas(m, name)
    THEN [i \in 1..Len(m) |->
             IF m[i].name = name
             THEN [name |-> name, values |-> m[i].values \o values]
             ELSE m[i]]
    ELSE Append(m, [name |-> name, values |-> values])

\* ParsingModule._merge_aggregated(target, source): the new value of target
RECURSIVE merge_aggregated(_, _)
merge_aggregated(target, source) ==
    IF source = << >> THEN target
    ELSE merge_aggregated(MapExtend(target, Head(source).name, Head(source).values),
                          Tail(source))

\* ------------------------------------------------------------------------
\* Articles and the responses of the extraction adapter
\* ------------------------------------------------------------------------
PMIDs == 1..(MaxArticles + MaxNew)

\* the phrases of the relevance scorer that occur in the title and abstract
\* of each article
ArticleText(pmid) ==
    CASE pmid % 4 = 0 -> {"intra-subject", "within-subject", "crossover"}
      [] pmid % 4 = 1 -> {"bioequivalence"}
      [] pmid % 4 = 2 -> {"variability", "inter-individual"}
      [] OTHER -> {"coefficient of variation", "healthy subjects"}

Article(pmid) == [pmid |-> pmid, text |-> ArticleText(pmid)]

\* ParsingModule._cv_signal_score
cv_signal_score(text) ==
    (IF "bioequivalence" \in text THEN 2 ELSE 0)
    + (IF "crossover" \in text \/ "cross-over" \in text THEN 2 ELSE 0)
    + (IF "healthy volunteer" \in text \/ "healthy subjects" \in text THEN 1 ELSE 0)
    + (IF "intra-subject" \in text THEN 3 ELSE 0)
    + (IF "within-subject" \in text THEN 3 ELSE 0)
    + (IF "intrasubject" \in text THEN 3 ELSE 0)
    + (IF "withinsubject" \in text THEN 3 ELSE 0)
    + (IF "coefficient of variation" \in text THEN 2 ELSE 0)
    + (IF "variability" \in text /\ "inter-individual" \notin text THEN 1 ELSE 0)

\* a JSON object returned by the adapter, in key order: <<raw_name, candidate>>
O_empty == << >>
O_cv25 == << <<S_CV_intra, Cand("true", JNum(25))>> >>
O_cv40_half10 ==
    << <<S_CV_intra, Cand("one", JNum(40))>>, <<S_T12, Cand("true", JNum(10))>> >>
O_alias ==
    << <<S_cv_intra, Cand("true", JNum(60))>>, <<S_half_life, Cand("true", JNum(400))>> >>
O_nocv ==
    << <<S_Tmax, Cand("true", JNum(2))>>, <<S_CV_intra, Cand("false", JNull)>> >>
O_text == << <<S_CV_intra, Cand("true", JText)>>, <<S_T12, CandNone>> >>
O_nan == << <<S_CV_intra, Cand("true", JNaN)>> >>
O_bool == << <<S_tmax, Cand("true", JTrue)>> >>
O_other == << <<S_Cmax, CandOther>> >>
O_null_value == << <<S_auc, Cand("true", JNull)>> >>

LLMOutputs ==
    {O_empty, O_cv25, O_cv40_half10, O_alias, O_nocv, O_text, O_nan, O_bool,
     O_other, O_null_value}

\* the entry appended for an accepted candidate; cand keeps the candidate it
\* was made from (history, not program state)
Entry(param_data, pmid) ==
    [value |-> param_data.value, pmid |-> pmid, cand |-> param_data]

\* ParsingModule._extract_params_from_article, given the adapter's response
RECURSIVE extract_params(_, _, _)
extract_params(params, pmid, target_only_cv) ==
    IF params = << >> THEN << >>
    ELSE LET raw_name == Head(params)[1]
             param_data == Head(params)[2]
             canonical_name == Parsing_canonicalize_param_name(raw_name)
             rest == extract_params(Tail(params), pmid, target_only_cv)
         IN  IF target_only_cv /\ canonical_name # S_CV_intra THEN rest
             ELSE IF ~is_valid_extracted_param(param_data) THEN rest
             ELSE merge_aggregated(
                      << [name |-> canonical_name,
                          values |-> << Entry(param_data, pmid) >>] >>,
                      rest)

\* ------------------------------------------------------------------------
\* State
\* ------------------------------------------------------------------------
VARIABLES
    project,          \* DBProject rows: status and the three JSON columns
    store,            \* DBDrugParameter rows, in insertion order
    pc,               \* position of _run_full_pipeline on project PIPE
    pmids,            \* result of the general pubmed.search
    articles,         \* result of the general fetch_abstracts
    idx,              \* next article of the general pass
    aggregated_params,
    processed_pmids,
    cv_only,          \* the map built inside _extract_missing_cv_intra
    scored,           \* scored[:10] of the enrichment pass, and its position
    eidx,
    search_ret,       \* what search_and_extract returned
    design_ret,       \* what generate_design returned
    llm_calls,        \* history: every adapter call, <<mode, pmid>>
    enrich_searches,  \* history: number of targeted searches issued
    general_pmids,    \* history: identifiers processed by the general pass
    gate_had_cv,      \* history: CV_intra in the map when the gate was read
    stage_calls,      \* history: the stages the pipeline invoked
    pdf_done,         \* the PDF upload on project PDF has been handled
    probe             \* inputs and result of a pure function under test

vars ==
    <<project, store, pc, pmids, articles, idx, aggregated_params,
      processed_pmids, cv_only, scored, eidx, search_ret, design_ret,
      llm_calls, enrich_searches, general_pmids, gate_had_cv, stage_calls,
      pdf_done, probe>>

PIPE == "pipeline_project"
PDF == "pdf_project"
ProjectIds == {PIPE, PDF}

NoSearchResults ==
    [present |-> FALSE, articles_processed |-> 0, parameters_found |-> << >>,
     critical_coverage |-> FALSE, missing_critical |-> << >>]

NoDesign ==
    [present |-> FALSE, sample_size |-> 0, recruitment_size |-> 0,
     design_type |-> << >>, cv_intra |-> NoneV, washout_days |-> NoneV,
     design_explanation |-> "", randomization_scheme |-> "",
     critical_parameters |-> [CV_intra |-> NoneV, Tmax |-> NoneV, T12 |-> NoneV]]

NoRegCheck ==
    [present |-> FALSE, is_compliant |-> FALSE, critical_issues |-> << >>,
     warnings |-> << >>]

NewProject(status) ==
    [exists |-> TRUE, status |-> status, search_results |-> NoSearchResults,
     design_parameters |-> NoDesign, regulatory_check |-> NoRegCheck]

NotReturned == [returned |-> FALSE, error |-> ""]
NoProbe == [fn |-> "none"]

\* the state when _run_full_pipeline starts; row_found tells whether
\* db.query(DBProject)...first() finds the project's row
PipelineStart(row_found) ==
    /\ project = [p \in ProjectIds |->
                     IF p = PIPE
                     THEN [NewProject("searching") EXCEPT !.exists = row_found]
                     ELSE NewProject("uploading")]
    /\ store = << >>
    /\ pc = "search"
    /\ pmids = << >>
    /\ articles = << >>
    /\ idx = 1
    /\ aggregated_params = << >>
    /\ processed_pmids = {}
    /\ cv_only = << >>
    /\ scored = << >>
    /\ eidx = 1
    /\ search_ret = NotReturned
    /\ design_ret = [returned |-> FALSE, error |-> "", computed_sample_size |-> FALSE]
    /\ llm_calls = << >>
    /\ enrich_searches = 0
    /\ general_pmids = {}
    /\ gate_had_cv = FALSE
    /\ stage_calls = << >>
    /\ pdf_done = FALSE

PipelineInit == PipelineStart(TRUE)

Init == PipelineInit /\ probe = NoProbe

PipelineVars ==
    <<project, store, pc, pmids, articles, idx, aggregated_params,
      processed_pmids, cv_only, scored, eidx, search_ret, design_ret,
      llm_calls, enrich_searches, general_pmids, gate_had_cv, stage_calls,
      pdf_done>>

\* ------------------------------------------------------------------------
\* Literature Source Adapter (services/pubmed.py), seen from its callers:
\* search returns a list of identifiers, empty after a failure;
\* fetch_abstracts returns articles for some of the identifiers asked for,
\* in the order asked, none after a failure
\* ------------------------------------------------------------------------
RECURSIVE SubSeqs(_)
SubSeqs(s) ==
    IF s = << >> THEN { << >> }
    ELSE LET r == SubSeqs(Tail(s))
         IN  r \cup { <<Head(s)>> \o t : t \in r }

\* what the general search can answer: the first k identifiers
GeneralSearchAnswers == { [i \in 1..k |-> i] : k \in 0..MaxArticles }

\* what the targeted search can answer: any identifiers, in increasing order
RECURSIVE Upto(_)
Upto(n) == IF n = 0 THEN << >> ELSE Append(Upto(n - 1), n)
TargetedSearchAnswers == SubSeqs(Upto(MaxArticles + MaxNew))

FetchAnswers(ids) == { [i \in 1..Len(t) |-> Article(t[i])] : t \in SubSeqs(ids) }

\* the fetch of the enrichment pass: at most MaxNew articles come back
EnrichFetchAnswers(ids) == { a \in FetchAnswers(ids) : Len(a) <= MaxNew }

\* ------------------------------------------------------------------------
\* ParsingModule.search_and_extract, step by step
\* ------------------------------------------------------------------------
\* "not pmids" / "not articles" / "not new_pmids"
IsEmptyList(xs) == Len(xs) = 0

\* an early return that reports nothing
ErrorReturn_silent(msg) == [returned |-> TRUE, error |-> ""]

\* return {"error": msg, "parameters": []}
ErrorReturn(msg) == [returned |-> TRUE, error |-> msg]
OkReturn == [returned |-> TRUE, error |-> ""]

\* Step 1: self.pubmed.search(substances, max_results=max_articles)
PubmedSearch ==
    /\ pc = "search"
    /\ \E ans \in GeneralSearchAnswers :
        /\ pmids' = ans
        /\ IF IsEmptyList(ans)
           THEN /\ search_ret' = ErrorReturn("No articles found")
                /\ pc' = "search_returned"
           ELSE /\ search_ret' = search_ret
                /\ pc' = "fetch"
    /\ stage_calls' = Append(stage_calls, "search")
    /\ UNCHANGED <<project, store, articles, idx, aggregated_params,
                   processed_pmids, cv_only, scored, eidx, design_ret,
                   llm_calls, enrich_searches, general_pmids, gate_had_cv,
                   pdf_done, probe>>

\* Step 2: self.pubmed.fetch_abstracts(pmids)
FetchAbstracts ==
    /\ pc = "fetch"
    /\ \E ans \in FetchAnswers(pmids) :
        /\ articles' = ans
        /\ IF IsEmptyList(ans)
           THEN /\ search_ret' = ErrorReturn("Failed to fetch abstracts")
                /\ pc' = "search_returned"
           ELSE /\ search_ret' = search_ret
                /\ pc' = IF Len(ans) = 0 THEN "gate" ELSE "extract"
    /\ idx' = 1
    /\ UNCHANGED <<project, store, pmids, aggregated_params, processed_pmids,
                   cv_only, scored, eidx, design_ret, llm_calls,
                   enrich_searches, general_pmids, gate_had_cv, stage_calls,
                   pdf_done, probe>>

\* Step 3, one iteration of "for article in articles"
ExtractArticle ==
    /\ pc = "extract"
    /\ LET pmid == articles[idx].pmid IN
       \E out \in LLMOutputs :
        /\ processed_pmids' = processed_pmids \cup {pmid}
        /\ general_pmids' = general_pmids \cup {pmid}
        /\ llm_calls' = Append(llm_calls, <<"general", pmid>>)
        /\ aggregated_params' =
               merge_aggregated(aggregated_params, extract_params(out, pmid, FALSE))
    /\ idx' = idx + 1
    /\ pc' = IF idx = Len(articles) THEN "gate" ELSE "extract"
    /\ UNCHANGED <<project, store, pmids, articles, cv_only, scored, eidx,
                   search_ret, design_ret, enrich_searches, gate_had_cv,
                   stage_calls, pdf_done, probe>>

\* sorted(articles, key=score, reverse=True): stable, descending
RECURSIVE InsertByScore(_, _)
InsertByScore(sorted, a) ==
    IF sorted = << >> THEN <<a>>
    ELSE IF cv_signal_score(Head(sorted).text) >= cv_signal_score(a.text)
         THEN <<Head(sorted)>> \o InsertByScore(Tail(sorted), a)
         ELSE <<a>> \o sorted

RECURSIVE SortByScore(_)
SortByScore(as) ==
    IF as = << >> THEN << >>
    ELSE InsertByScore(SortByScore(SubSeq(as, 1, Len(as) - 1)), as[Len(as)])

EnrichTop == 10

\* a slice that keeps the whole list
Take_all(xs, n) == xs

\* xs[:n]
Take(xs, n) == SubSeq(xs, 1, IF Len(xs) < n THEN Len(xs) ELSE n)

\* an enrichment pass that runs whatever the map holds
NeedsEnrichment_always(m) == TRUE

\* 'if "CV_intra" not in aggregated_params'
NeedsEnrichment(m) == ~MapHas(m, S_CV_intra)

\* new_pmids = [pmid for pmid in pmids if pmid and pmid not in already_seen]
NewPmids(ans, seen) == SelectSeq(ans, LAMBDA x : x \notin seen)

\* Step 3b up to the sort inside _extract_missing_cv_intra
EnrichmentGate ==
    /\ pc = "gate"
    /\ gate_had_cv' = MapHas(aggregated_params, S_CV_intra)
    /\ IF ~NeedsEnrichment(aggregated_params)
       THEN /\ pc' = "save"
            /\ UNCHANGED <<enrich_searches, scored, eidx>>
       ELSE /\ enrich_searches' = enrich_searches + 1
            /\ \E ans \in TargetedSearchAnswers :
                LET new_pmids == NewPmids(ans, processed_pmids) IN
                IF IsEmptyList(new_pmids)
                THEN pc' = "save" /\ UNCHANGED <<scored, eidx>>
                ELSE \E arts \in EnrichFetchAnswers(new_pmids) :
                        IF IsEmptyList(arts)
                        THEN pc' = "save" /\ UNCHANGED <<scored, eidx>>
                        ELSE /\ scored' = Take(SortByScore(arts), EnrichTop)
                             /\ eidx' = 1
                             /\ pc' = "enrich"
    /\ UNCHANGED <<project, store, pmids, articles, idx, aggregated_params,
                   processed_pmids, cv_only, search_ret, design_ret, llm_calls,
                   general_pmids, stage_calls, pdf_done, probe>>

\* one iteration of "for article in scored[:10]"; after the last one the
\* map is returned and merged into aggregated_params
EnrichArticle ==
    /\ pc = "enrich"
    /\ LET pmid == scored[eidx].pmid IN
       \E out \in LLMOutputs :
        LET merged == merge_aggregated(cv_only, extract_params(out, pmid, TRUE)) IN
        /\ processed_pmids' = processed_pmids \cup {pmid}
        /\ llm_calls' = Append(llm_calls, <<"cv_only", pmid>>)
        /\ cv_only' = merged
        /\ IF eidx = Len(scored)
           THEN /\ aggregated_params' = merge_aggregated(aggregated_params, merged)
                /\ pc' = "save"
           ELSE /\ aggregated_params' = aggregated_params
                /\ pc' = "enrich"
    /\ eidx' = eidx + 1
    /\ UNCHANGED <<project, store, pmids, articles, idx, scored, search_ret,
                   design_ret, enrich_searches, general_pmids, gate_had_cv,
                   stage_calls, pdf_done, probe>>

\* the DBDrugParameter rows of Step 4, in the order they are added
Row(pid, name, e) ==
    [project_id |-> pid, parameter |-> name, value |-> PyStr(e.value),
     source_pmid |-> e.pmid, is_reliable |-> TRUE, cand |-> e.cand]

RECURSIVE RowsOf(_, _)
RowsOf(pid, m) ==
    IF m = << >> THEN << >>
    ELSE [i \in 1..Len(Head(m).values) |-> Row(pid, Head(m).name, Head(m).values[i])]
         \o RowsOf(pid, Tail(m))

\* a summary that reports the critical parameter as covered whatever the map
Summary_always_covered(m, processed) ==
    [present |-> TRUE,
     articles_processed |-> Cardinality(processed),
     parameters_found |-> [i \in 1..Len(m) |-> <<m[i].name, Len(m[i].values)>>],
     critical_coverage |-> TRUE,
     missing_critical |-> << >>]

\* the summary written to project.search_results
Summary(m, processed) ==
    [present |-> TRUE,
     articles_processed |-> Cardinality(processed),
     parameters_found |-> [i \in 1..Len(m) |-> <<m[i].name, Len(m[i].values)>>],
     critical_coverage |-> Len(MapGet(m, S_CV_intra)) > 0,
     missing_critical |-> IF Len(MapGet(m, S_CV_intra)) = 0
                          THEN <<S_CV_intra>> ELSE << >>]

\* Steps 4 and 5: rows, commit, status and summary, return
SaveResults ==
    /\ pc = "save"
    /\ store' = store \o RowsOf(PIPE, aggregated_params)
    /\ project' = IF project[PIPE].exists
                   THEN [project EXCEPT
                            ![PIPE].status = "searching_completed",
                            ![PIPE].search_results =
                                Summary(aggregated_params, processed_pmids)]
                   ELSE project
    /\ search_ret' = OkReturn
    /\ pc' = "search_returned"
    /\ UNCHANGED <<pmids, articles, idx, aggregated_params, processed_pmids,
                   cv_only, scored, eidx, design_ret, llm_calls,
                   enrich_searches, general_pmids, gate_had_cv, stage_calls,
                   pdf_done, probe>>

\* ------------------------------------------------------------------------
\* DesignModule.generate_design
\* ------------------------------------------------------------------------
ProjectRows(pid) == SelectSeq(store, LAMBDA r : r.project_id = pid)

DesignError(msg, computed) ==
    [error |-> msg, computed_sample_size |-> computed, design |-> NoDesign]

\* self.calc.<name>: an attribute the class does not define raises
\* AttributeError
CalcHas(name) == name \in CalculatorMethods

\* a refusal that is never taken
cv_intra_is_None_never(cv_intra) == FALSE

\* "if cv_intra is None"
cv_intra_is_None(cv_intra) == cv_intra.k = "none"

\* the value generate_design returns for the stored rows of the project;
\* every exception is caught and returned as {"error": str(e)}
generate_design(row_found, params) ==
    IF ~row_found THEN DesignError("Project not found", FALSE)
    ELSE IF Len(params) = 0 THEN DesignError("No parameters found", FALSE)
    ELSE
    LET cv == get_most_conservative_value(params, S_CV_intra)
        tmax == get_most_conservative_value(params, S_Tmax)
        t_half == get_most_conservative_value(params, S_T12)
    IN
    IF ~cv.ok \/ ~tmax.ok \/ ~t_half.ok
    THEN DesignError("ValueError: could not convert string to float", FALSE)
    ELSE IF cv_intra_is_None(cv.f)
    THEN DesignError("CV_intra not found - cannot calculate sample size", FALSE)
    ELSE
    LET chosen == choose_design_type(cv.f, t_half.f)
        ss == calculate_sample_size_for_design(cv.f, chosen)
        washout == IF t_half.f.k # "none" /\ FTruthy(t_half.f)
                   THEN estimate_washout_period(t_half.f)
                   ELSE Ok(NoneV)
    IN
    IF ~ss.ok THEN DesignError("math.ceil: cannot convert float", TRUE)
    ELSE IF ~washout.ok THEN DesignError("math.ceil: cannot convert float", TRUE)
    ELSE IF ~CalcHas("randomization_scheme")
    THEN DesignError("AttributeError: randomization_scheme", TRUE)
    ELSE [error |-> "",
          computed_sample_size |-> TRUE,
          design |->
              [present |-> TRUE,
               sample_size |-> ss.n,
               recruitment_size |-> ss.n,
               design_type |-> ss.design_type,
               cv_intra |-> cv.f,
               washout_days |-> washout.f,
               design_explanation |-> design_explanation(cv.f, t_half.f, ss.design_type),
               randomization_scheme |-> "scheme",
               critical_parameters |->
                   [CV_intra |-> cv.f, Tmax |-> tmax.f, T12 |-> t_half.f]]]

\* ------------------------------------------------------------------------
\* RegulatoryModule.check_compliance on the stored design
\* ------------------------------------------------------------------------
CvWarnHigh == 50
CvWarnLow == 5
WashoutWarn == 90

\* "if cv:" / "if washout:" on an optional float
OptTruthy(f) == f.k # "none" /\ FTruthy(f)

\* a verdict that warnings can overturn
IsCompliant_no_warnings(issues, warnings) == Len(issues) = 0 /\ Len(warnings) = 0

\* is_compliant = len(issues) == 0
IsCompliant(issues, warnings) == Len(issues) = 0

check_compliance(design) ==
    IF ~design.present
    THEN [error |-> "Design parameters not generated yet", check |-> NoRegCheck]
    ELSE
    LET cv == design.critical_parameters.CV_intra
        issues == IF design.sample_size < MinSampleSize
                  THEN <<"sample size below minimum of 12">> ELSE << >>
        w1 == IF OptTruthy(cv) /\ FGt(cv, Num(CvWarnHigh))
              THEN <<"high variability">> ELSE << >>
        w2 == IF OptTruthy(cv) /\ FLt(cv, Num(CvWarnLow))
              THEN <<"very low variability">> ELSE << >>
        w3 == IF OptTruthy(cv) /\ FGt(cv, Num(CvLow))
                 /\ design.design_type = S_2x2_crossover
              THEN <<"high variability with 2x2 crossover">> ELSE << >>
        w4 == IF OptTruthy(design.washout_days)
                 /\ FGt(design.washout_days, Num(WashoutWarn))
              THEN <<"very long washout">> ELSE << >>
    IN  [error |-> "",
         check |-> [present |-> TRUE,
                    is_compliant |-> IsCompliant(issues, w1 \o w2 \o w3 \o w4),
                    critical_issues |-> issues,
                    warnings |-> w1 \o w2 \o w3 \o w4]]

\* ------------------------------------------------------------------------
\* _run_full_pipeline after search_and_extract has returned
\* ------------------------------------------------------------------------
HasError_never(ret) == FALSE

\* 'if search_results.get("error")', 'if design.get("error")': the stage's
\* result carries a non-empty error
HasError(ret) == ret.error # ""

\* "project.status = s; db.commit(); return" inside the try block.  When
\* the row was not found project is None: the assignment raises
\* AttributeError, the handler's own 'project.status = "failed"' raises it
\* again, and it leaves the function
SetStatusAndReturn(s) ==
    IF project[PIPE].exists
    THEN /\ project' = [project EXCEPT ![PIPE].status = s]
         /\ pc' = "done"
    ELSE /\ project' = project
         /\ pc' = "raised"

\* parser = ParsingModule(db) raises (YandexGPTClient without credentials):
\* caught by the handler of the pipeline, which sets status "failed"
PipelineConstructFails ==
    /\ pc = "search"
    /\ SetStatusAndReturn("failed")
    /\ UNCHANGED <<store, pmids, articles, idx, aggregated_params,
                   processed_pmids, cv_only, scored, eidx, search_ret,
                   design_ret, llm_calls, enrich_searches, general_pmids,
                   gate_had_cv, stage_calls, pdf_done, probe>>

\* 'if search_results.get("error")': status search_failed, return
PipelineSearchFailed ==
    /\ pc = "search_returned"
    /\ HasError(search_ret)
    /\ SetStatusAndReturn("search_failed")
    /\ UNCHANGED <<store, pmids, articles, idx, aggregated_params,
                   processed_pmids, cv_only, scored, eidx, search_ret,
                   design_ret, llm_calls, enrich_searches, general_pmids,
                   gate_had_cv, stage_calls, pdf_done, probe>>

\* Step 2: designer.generate_design(project_id), which stores the design
\* when it succeeds
PipelineDesign ==
    /\ pc = "search_returned"
    /\ ~HasError(search_ret)
    /\ LET d == generate_design(project[PIPE].exists, ProjectRows(PIPE)) IN
        /\ design_ret' = [returned |-> TRUE, error |-> d.error,
                          computed_sample_size |-> d.computed_sample_size]
        /\ project' = IF d.error = ""
                      THEN [project EXCEPT ![PIPE].design_parameters = d.design]
                      ELSE project
    /\ stage_calls' = Append(stage_calls, "design")
    /\ pc' = "design_returned"
    /\ UNCHANGED <<store, pmids, articles, idx, aggregated_params,
                   processed_pmids, cv_only, scored, eidx, search_ret,
                   llm_calls, enrich_searches, general_pmids, gate_had_cv,
                   pdf_done, probe>>

\* 'if design.get("error")': status design_failed, return; otherwise
\* Step 3, the regulatory check, and Step 4, status completed
PipelineFinish ==
    /\ pc = "design_returned"
    /\ IF HasError(design_ret)
       THEN /\ SetStatusAndReturn("design_failed")
            /\ stage_calls' = stage_calls
       ELSE LET reg == check_compliance(project[PIPE].design_parameters) IN
            /\ stage_calls' = Append(stage_calls, "regulatory")
            /\ project' =
                 IF reg.error # ""
                 THEN [project EXCEPT ![PIPE].status = "regulatory_check_failed"]
                 ELSE [project EXCEPT ![PIPE].regulatory_check = reg.check,
                                      ![PIPE].status = "completed"]
            /\ pc' = "done"
    /\ UNCHANGED <<store, pmids, articles, idx, aggregated_params,
                   processed_pmids, cv_only, scored, eidx, search_ret,
                   design_ret, llm_calls, enrich_searches, general_pmids,
                   gate_had_cv, pdf_done, probe>>

\* ------------------------------------------------------------------------
\* ParsingModule.extract_from_pdf and the status upload_pdf derives from it
\* ------------------------------------------------------------------------
\* the loop of Step 3: [ok |-> FALSE] when param_data.get raises
\* AttributeError on a value that is neither None nor an object
RECURSIVE pdf_aggregate(_)
pdf_aggregate(params) ==
    IF params = << >> THEN [ok |-> TRUE, m |-> << >>]
    ELSE LET param_name == Head(params)[1]
             param_data == Head(params)[2]
             rest == pdf_aggregate(Tail(params))
         IN  IF param_data.shape = "none" THEN rest
             ELSE IF param_data.shape = "other" THEN [ok |-> FALSE, m |-> << >>]
             ELSE IF ~Truthy(param_data.found) THEN rest
             ELSE IF ~rest.ok THEN rest
             ELSE [ok |-> TRUE,
                   m |-> merge_aggregated(
                             << [name |-> param_name,
                                 values |-> << Entry(param_data, 0) >>] >>,
                             rest.m)]

PdfSummary(m) ==
    [present |-> TRUE, articles_processed |-> 0,
     parameters_found |-> [i \in 1..Len(m) |-> <<m[i].name, Len(m[i].values)>>],
     critical_coverage |-> FALSE, missing_critical |-> << >>]

\* upload_pdf for the request held in probe: whether the PDF has text, and
\* the adapter's response to that text
UploadPdf ==
    /\ probe.fn = "pdf"
    /\ ~pdf_done
    /\ pdf_done' = TRUE
    /\ LET agg == pdf_aggregate(probe.params) IN
        IF ~probe.has_text \/ IsEmptyList(probe.params) \/ ~agg.ok
        THEN /\ project' = [project EXCEPT ![PDF].status = "upload_failed"]
             /\ store' = store
        ELSE /\ store' = store \o RowsOf(PDF, agg.m)
             /\ project' = [project EXCEPT
                               ![PDF].status = "pdf_processed",
                               ![PDF].search_results = PdfSummary(agg.m)]
    /\ UNCHANGED <<pc, pmids, articles, idx, aggregated_params,
                   processed_pmids, cv_only, scored, eidx, search_ret,
                   design_ret, llm_calls, enrich_searches, general_pmids,
                   gate_had_cv, stage_calls, probe>>

\* the adapter responses tried on the PDF path: up to MaxPdfParams keys
PdfNames == {S_CV_intra, S_cv_intra, S_half_life, S_Tmax}
PdfCands ==
    {Cand("true", JNum(25)), Cand("true", JText), Cand("true", JNull),
     Cand("false", JNull), CandNone, CandOther}
PdfPairs == { <<n, c>> : n \in PdfNames, c \in PdfCands }

RECURSIVE SeqsUpTo(_, _)
SeqsUpTo(S, n) ==
    IF n = 0 THEN { << >> }
    ELSE LET r == SeqsUpTo(S, n - 1)
         IN  r \cup { Append(t, x) : t \in r, x \in S }

\* the keys of a JSON object are distinct
DistinctKeys(params) ==
    \A i, j \in 1..Len(params) : params[i][1] = params[j][1] => i = j

PdfInit ==
    /\ PipelineInit
    /\ probe \in [fn : {"pdf"}, has_text : BOOLEAN,
                  params : {t \in SeqsUpTo(PdfPairs, MaxPdfParams) :
                               DistinctKeys(t)}]

PdfNext == UploadPdf

SpecPdf == PdfInit /\ [][PdfNext]_vars

Next ==
    \/ PipelineConstructFails
    \/ PubmedSearch
    \/ FetchAbstracts
    \/ ExtractArticle
    \/ EnrichmentGate
    \/ EnrichArticle
    \/ SaveResults
    \/ PipelineSearchFailed
    \/ PipelineDesign
    \/ PipelineFinish

Spec == Init /\ [][Next]_vars

\* the same pipeline started for a project whose row is not found
RowMissingInit == PipelineStart(FALSE) /\ probe = NoProbe

SpecRowMissing == RowMissingInit /\ [][Next]_vars

\* ------------------------------------------------------------------------
\* The design calculator on its own: inputs drawn at the start, one call
\* ------------------------------------------------------------------------
CvInputs == { Num(n) : n \in 0..MaxCv } \cup {Num(-20), NaN, PInf, NInf}
HalfInputs ==
    {NoneV, Num(0), Num(10), Num(LongHalfLife - 1), Num(LongHalfLife),
     Num(LongHalfLife + 1), NaN, PInf}
S_unknown == <<"a", "d", "a", "p", "t", "i", "v", "e">>
S_parallel_en == <<"P", "a", "r", "a", "l", "l", "e", "l">>
DesignInputs ==
    {S_2x2_crossover, S_3way_replicate, S_4way_replicate, S_Parallel,
     S_parallel_en, S_unknown}

CalcInit ==
    /\ PipelineInit
    /\ probe \in [fn : {"calc"}, cv_intra : CvInputs, t_half : HalfInputs,
                  design_type : DesignInputs, op : {"none"}, out : {NoneV}]

CallChooseDesignType ==
    /\ probe.fn = "calc" /\ probe.op = "none"
    /\ probe' = [probe EXCEPT !.op = "choose_design_type",
                     !.out = choose_design_type(probe.cv_intra, probe.t_half)]
    /\ UNCHANGED PipelineVars

CallSampleSizeForDesign ==
    /\ probe.fn = "calc" /\ probe.op = "none"
    /\ probe' = [probe EXCEPT !.op = "calculate_sample_size_for_design",
                     !.out = calculate_sample_size_for_design(
                                 probe.cv_intra, probe.design_type)]
    /\ UNCHANGED PipelineVars

CallSampleSize ==
    /\ probe.fn = "calc" /\ probe.op = "none"
    /\ probe' = [probe EXCEPT !.op = "calculate_sample_size",
                     !.out = calculate_sample_size(probe.cv_intra)]
    /\ UNCHANGED PipelineVars

\* choose_design_type, then design_explanation for the design it returned,
\* on the same cv_intra and t_half, as generate_design calls them
CallDesignExplanation ==
    /\ probe.fn = "calc" /\ probe.op = "none"
    /\ LET chosen == choose_design_type(probe.cv_intra, probe.t_half)
       IN  probe' = [probe EXCEPT !.op = "design_explanation",
                         !.out = [design_type |-> chosen,
                                  design_explanation |->
                                      design_explanation(probe.cv_intra,
                                                         probe.t_half, chosen)]]
    /\ UNCHANGED PipelineVars

CalcNext ==
    \/ CallChooseDesignType
    \/ CallSampleSizeForDesign
    \/ CallSampleSize
    \/ CallDesignExplanation

SpecCalc == CalcInit /\ [][CalcNext]_vars

\* ------------------------------------------------------------------------
\* The Evidence Validator on its own
\* ------------------------------------------------------------------------
ValueInputs ==
    {JNum(-5), JNum(0), JNum(45), JNum(1000000), JNaN, JInf, JNegInf, JText,
     JNull, JTrue, JList}
CandInputs ==
    {CandNone, CandOther} \cup { Cand(f, v) : f \in FoundVals, v \in ValueInputs }

ValidatorInit ==
    /\ PipelineInit
    /\ probe \in [fn : {"validator"}, param_data : CandInputs, op : {"none"},
                  out : {FALSE}]

CallIsValid ==
    /\ probe.fn = "validator" /\ probe.op = "none"
    /\ probe' = [probe EXCEPT !.op = "is_valid",
                     !.out = is_valid_extracted_param(probe.param_data)]
    /\ UNCHANGED PipelineVars

ValidatorNext == CallIsValid

SpecValidator == ValidatorInit /\ [][ValidatorNext]_vars

\* ------------------------------------------------------------------------
\* The Conservative Estimator on its own
\* ------------------------------------------------------------------------
StoredValues ==
    {PyStr(JNum(20)), PyStr(JNum(45)), PyStr(JText), PyStr(JNaN)}
ObsInputs ==
    [parameter : {S_CV_intra, S_cv_intra, S_Tmax}, value : StoredValues,
     is_reliable : BOOLEAN]

EstimatorInit ==
    /\ PipelineInit
    /\ probe \in [fn : {"estimator"}, params : SeqsUpTo(ObsInputs, MaxObs),
                  param_name : {S_CV_intra, S_Tmax}, op : {"none"},
                  out : {Raised}]

CallMostConservative ==
    /\ probe.fn = "estimator" /\ probe.op = "none"
    /\ probe' = [probe EXCEPT !.op = "most_conservative",
                     !.out = get_most_conservative_value(probe.params,
                                                         probe.param_name)]
    /\ UNCHANGED PipelineVars

EstimatorNext == CallMostConservative

SpecEstimator == EstimatorInit /\ [][EstimatorNext]_vars

\* ------------------------------------------------------------------------
\* The orchestrator's canonicalizer on its own, applied once and then again
\* to its own result
\* ------------------------------------------------------------------------
UpperChar(c) ==
    CASE c = "a" -> "A" [] c = "c" -> "C" [] c = "i" -> "I" [] c = "m" -> "M"
      [] c = "n" -> "N" [] c = "t" -> "T" [] c = "u" -> "U" [] c = "v" -> "V"
      [] c = "x" -> "X"
      [] OTHER -> c

UpperCased(s) == [i \in 1..Len(s) |-> UpperChar(s[i])]
Spaced(s) == [i \in 1..Len(s) |-> IF s[i] = "_" THEN " " ELSE s[i]]

RECURSIVE Blanks(_)
Blanks(n) == IF n = 0 THEN << >> ELSE <<" ">> \o Blanks(n - 1)

CanonicalNames == {S_CV_intra, S_T12, S_Cmax, S_AUC, S_Tmax}
AliasKeys ==
    { Parsing_PARAM_NAME_ALIASES[i][1] : i \in 1..Len(Parsing_PARAM_NAME_ALIASES) }
S_Vd == <<"V", "d">>
S_t_max == <<"t", "_", "m", "a", "x">>
BaseNames == CanonicalNames \cup AliasKeys \cup {S_Vd, S_t_max, << >>}

\* a name as an adapter may spell it: other case, blanks for underscores,
\* blanks around it
RawNames ==
    { Blanks(l) \o w \o Blanks(r) :
        l \in 0..MaxPad, r \in 0..MaxPad,
        w \in UNION { {b, UpperCased(b), Spaced(b), Spaced(UpperCased(b))} :
                        b \in BaseNames } }

CanonInit ==
    /\ PipelineInit
    /\ probe \in [fn : {"canon"}, raw_name : RawNames, op : {"none"},
                  once : {<< >>}, twice : {<< >>}]

CallCanonicalize ==
    /\ probe.fn = "canon" /\ probe.op = "none"
    /\ probe' = [probe EXCEPT !.op = "once",
                     !.once = Parsing_canonicalize_param_name(probe.raw_name)]
    /\ UNCHANGED PipelineVars

CallCanonicalizeAgain ==
    /\ probe.fn = "canon" /\ probe.op = "once"
    /\ probe' = [probe EXCEPT !.op = "twice",
                     !.twice = Parsing_canonicalize_param_name(probe.once)]
    /\ UNCHANGED PipelineVars

CanonNext == CallCanonicalize \/ CallCanonicalizeAgain

SpecCanon == CanonInit /\ [][CanonNext]_vars

\* ------------------------------------------------------------------------
\* The two canonicalizers side by side: one raw name given to
\* ParsingModule._canonicalize_param_name and to
\* DesignModule._canonicalize_param_name, and the estimator asked for the
\* orchestrator's canonical name over one reliable row stored under the raw
\* name.
\* ------------------------------------------------------------------------
AliasRow(raw_name) ==
    [project_id |-> PIPE, parameter |-> raw_name, value |-> PyStr(Num(10)),
     source_pmid |-> 1, is_reliable |-> TRUE, cand |-> CandNone]

AliasInit ==
    /\ PipelineInit
    /\ probe \in [fn : {"alias"}, raw_name : RawNames, op : {"none"},
                  parsing_name : {<< >>}, design_name : {<< >>},
                  estimate : {Ok(NoneV)}]

CallBothCanonicalizers ==
    /\ probe.fn = "alias" /\ probe.op = "none"
    /\ LET parsing_name == Parsing_canonicalize_param_name(probe.raw_name)
       IN  probe' = [probe EXCEPT !.op = "done",
                         !.parsing_name = parsing_name,
                         !.design_name =
                             Design_canonicalize_param_name(probe.raw_name),
                         !.estimate =
                             get_most_conservative_value(
                                 <<AliasRow(probe.raw_name)>>, parsing_name)]
    /\ UNCHANGED PipelineVars

AliasNext == CallBothCanonicalizers

SpecAlias == AliasInit /\ [][AliasNext]_vars

\* ------------------------------------------------------------------------
\* The relevance scorer on its own.  A text (title, blank, abstract, lower-
\* cased) is given by the phrases of the scorer that occur in it; no phrase
\* is part of another, so every combination occurs in some text
\* ------------------------------------------------------------------------
IntraMarkers == {"intra-subject", "within-subject", "intrasubject", "withinsubject"}
ScorerPhrases ==
    {"bioequivalence", "crossover", "cross-over", "healthy volunteer",
     "healthy subjects", "coefficient of variation", "variability",
     "inter-individual"} \cup IntraMarkers

ScoreInit ==
    /\ PipelineInit
    /\ probe \in [fn : {"score"}, text : SUBSET ScorerPhrases, op : {"none"},
                  out : {0}]

CallCvSignalScore ==
    /\ probe.fn = "score" /\ probe.op = "none"
    /\ probe' = [probe EXCEPT !.op = "cv_signal_score",
                     !.out = cv_signal_score(probe.text)]
    /\ UNCHANGED PipelineVars

ScoreNext == CallCvSignalScore

SpecScore == ScoreInit /\ [][ScoreNext]_vars

\* ------------------------------------------------------------------------
\* The recruitment adjustment on its own
\* ------------------------------------------------------------------------
RateInputs ==
    { Num(r) : r \in RateValues \cup {-1, 100, 101} } \cup {NaN, PInf}

RecruitInit ==
    /\ PipelineInit
    /\ probe \in [fn : {"recruit"}, sample_size : 0..MaxSampleSize,
                  dropout_rate : RateInputs, screen_fail_rate : RateInputs,
                  op : {"none"}, out : {RecruitError("")}]

CallRecruitmentSampleSize ==
    /\ probe.fn = "recruit" /\ probe.op = "none"
    /\ probe' = [probe EXCEPT !.op = "calculate_recruitment_sample_size",
                     !.out = calculate_recruitment_sample_size(
                                 probe.sample_size, probe.dropout_rate,
                                 probe.screen_fail_rate)]
    /\ UNCHANGED PipelineVars

RecruitNext == CallRecruitmentSampleSize

SpecRecruit == RecruitInit /\ [][RecruitNext]_vars

\* ------------------------------------------------------------------------
\* The compliance check on its own, for a stored design
\* ------------------------------------------------------------------------
RegSampleSizes == {0, 10, 11, 12, 13, MaxSampleSize}
RegCvInputs ==
    {NoneV, Num(0), Num(3), Num(5), Num(30), Num(31), Num(50), Num(51), NaN}
RegWashoutInputs == {NoneV, Num(0), Num(90), Num(91)}

StoredDesign(n, cv, design_type, washout) ==
    [NoDesign EXCEPT !.present = TRUE, !.sample_size = n,
                     !.recruitment_size = n, !.design_type = design_type,
                     !.cv_intra = cv, !.washout_days = washout,
                     !.critical_parameters.CV_intra = cv]

RegInit ==
    /\ PipelineInit
    /\ probe \in [fn : {"regulatory"},
                  design : {NoDesign} \cup
                           { StoredDesign(n, cv, t, w) :
                               n \in RegSampleSizes, cv \in RegCvInputs,
                               t \in {S_2x2_crossover, S_3way_replicate,
                                      S_4way_replicate, S_Parallel},
                               w \in RegWashoutInputs },
                  op : {"none"},
                  out : {[error |-> "", check |-> NoRegCheck]}]

CallCheckCompliance ==
    /\ probe.fn = "regulatory" /\ probe.op = "none"
    /\ probe' = [probe EXCEPT !.op = "check_compliance",
                     !.out = check_compliance(probe.design)]
    /\ UNCHANGED PipelineVars

RegNext == CallCheckCompliance

SpecReg == RegInit /\ [][RegNext]_vars

\* ------------------------------------------------------------------------
\* The enrichment pass (ParsingModule._extract_missing_cv_intra) on its own:
\* the targeted search answers the first k identifiers, the fetch returns
\* some of the new ones, and the adapter's CV-only answers follow a pattern
\* over the identifiers.
\* ------------------------------------------------------------------------
RECURSIVE Reverse(_)
Reverse(s) == IF s = << >> THEN << >> ELSE Append(Reverse(Tail(s)), Head(s))

ArticlesOf(ids) == [i \in 1..Len(ids) |-> Article(ids[i])]

\* what fetch_abstracts can return for the new identifiers: all of them, in
\* the order asked or another, some of them, none
EnrichFetchVariants(ids) ==
    {ArticlesOf(ids), ArticlesOf(Reverse(ids)),
     ArticlesOf(SelectSeq(ids, LAMBDA x : x % 3 # 0)), << >>}

EnrichOutputs == {O_empty, O_cv25, O_cv40_half10, O_alias, O_nocv}

\* "for article in scored[:10]": the adapter calls made, in order
RECURSIVE cv_only_calls(_)
cv_only_calls(top) ==
    IF top = << >> THEN << >>
    ELSE <<<<"cv_only", Head(top).pmid>>>> \o cv_only_calls(Tail(top))

\* the same loop: the map aggregated from the CV-only answers
RECURSIVE cv_only_aggregate(_, _, _)
cv_only_aggregate(top, pattern, aggregated) ==
    IF top = << >> THEN aggregated
    ELSE cv_only_aggregate(
             Tail(top), pattern,
             merge_aggregated(aggregated,
                 extract_params(pattern[Head(top).pmid % 2], Head(top).pmid, TRUE)))

\* _extract_missing_cv_intra given the answers of the two adapters
extract_missing_cv_intra(ans, fetched, pattern, already_seen_pmids) ==
    LET new_pmids == NewPmids(ans, already_seen_pmids)
    IN  IF IsEmptyList(new_pmids) \/ IsEmptyList(fetched)
        THEN [calls |-> << >>, aggregated |-> << >>]
        ELSE LET top == Take(SortByScore(fetched), EnrichTop)
             IN  [calls |-> cv_only_calls(top),
                  aggregated |-> cv_only_aggregate(top, pattern, << >>)]

SeenInputs == {{}, {1, 2}}

EnrichInit ==
    /\ PipelineInit
    /\ \E k \in 0..MaxTargeted, seen \in SeenInputs,
          pattern \in [0..1 -> EnrichOutputs] :
         \E fetched \in EnrichFetchVariants(NewPmids(Upto(k), seen)) :
            probe = [fn |-> "enrich", ans |-> Upto(k),
                     already_seen_pmids |-> seen, fetched |-> fetched,
                     pattern |-> pattern, op |-> "none",
                     out |-> [calls |-> << >>, aggregated |-> << >>]]

CallExtractMissingCvIntra ==
    /\ probe.fn = "enrich" /\ probe.op = "none"
    /\ probe' = [probe EXCEPT !.op = "extract_missing_cv_intra",
                     !.out = extract_missing_cv_intra(
                                 probe.ans, probe.fetched, probe.pattern,
                                 probe.already_seen_pmids)]
    /\ UNCHANGED PipelineVars

EnrichNext == CallExtractMissingCvIntra

SpecEnrich == EnrichInit /\ [][EnrichNext]_vars

\* ------------------------------------------------------------------------
\* The aggregation of search_and_extract on its own: the answers of the
\* extraction adapter for the fetched articles are fixed; one merge per
\* article of the general pass, then the merge of the enrichment pass when
\* CV_intra is missing.  Article i of the general pass has identifier i.
\* ------------------------------------------------------------------------
MergePattern == [0..1 -> {O_empty, O_cv25, O_alias}]

\* the new articles of the enrichment pass, all of them fetched
EnrichmentArticles(processed) ==
    ArticlesOf(NewPmids(Upto(MaxArticles + MaxNew), processed))

MergeInit ==
    /\ PipelineInit
    /\ \E outs \in SeqsUpTo(LLMOutputs, MaxArticles) \ {<< >>},
          pattern \in MergePattern :
         probe = [fn |-> "merge", outs |-> outs, pattern |-> pattern,
                  done |-> 0, enriched |-> FALSE, finished |-> FALSE,
                  target |-> << >>]

\* one iteration of "for article in articles"
MergeArticle ==
    /\ probe.fn = "merge" /\ probe.done < Len(probe.outs)
    /\ LET pmid == probe.done + 1
           extracted == extract_params(probe.outs[pmid], pmid, FALSE)
       IN  probe' = [probe EXCEPT !.done = pmid,
                         !.target = merge_aggregated(probe.target, extracted)]
    /\ UNCHANGED PipelineVars

\* Step 3b
MergeEnrichment ==
    /\ probe.fn = "merge" /\ probe.done = Len(probe.outs) /\ ~probe.finished
    /\ IF NeedsEnrichment(probe.target)
       THEN LET processed == 1..probe.done
                cv_only_map ==
                    extract_missing_cv_intra(
                        Upto(MaxArticles + MaxNew),
                        EnrichmentArticles(processed), probe.pattern,
                        processed).aggregated
            IN  probe' = [probe EXCEPT !.finished = TRUE, !.enriched = TRUE,
                              !.target = merge_aggregated(probe.target, cv_only_map)]
       ELSE probe' = [probe EXCEPT !.finished = TRUE]
    /\ UNCHANGED PipelineVars

MergeNext == MergeArticle \/ MergeEnrichment

SpecMerge == MergeInit /\ [][MergeNext]_vars

\* ------------------------------------------------------------------------
\* The general pass run over the same articles, with the same adapter
\* answers, in two orders: the order fetched and another one.  Article i
\* has identifier i and answer outs[i].
\* ------------------------------------------------------------------------
Orders(n) ==
    { o \in [1..n -> 1..n] : \A i, j \in 1..n : o[i] = o[j] => i = j }

\* "for article in articles" over the articles in the given order
RECURSIVE aggregate_in_order(_, _, _)
aggregate_in_order(outs, order, aggregated) ==
    IF order = << >> THEN aggregated
    ELSE aggregate_in_order(
             outs, Tail(order),
             merge_aggregated(aggregated,
                 extract_params(outs[Head(order)], Head(order), FALSE)))

\* what the rest of the pipeline reads from the map of the general pass
general_pass(outs, order) ==
    LET aggregated == aggregate_in_order(outs, order, << >>)
        rows == RowsOf(PIPE, aggregated)
    IN  [aggregated |-> aggregated,
         enrich |-> NeedsEnrichment(aggregated),
         cv_intra |-> get_most_conservative_value(rows, S_CV_intra),
         tmax |-> get_most_conservative_value(rows, S_Tmax),
         t_half |-> get_most_conservative_value(rows, S_T12)]

NoPass ==
    [aggregated |-> << >>, enrich |-> FALSE, cv_intra |-> Raised,
     tmax |-> Raised, t_half |-> Raised]

OrderInit ==
    /\ PipelineInit
    /\ \E outs \in SeqsUpTo(LLMOutputs, MaxArticles) \ {<< >>} :
         \E order \in Orders(Len(outs)) :
            probe = [fn |-> "order", outs |-> outs, order |-> order,
                     op |-> "none", fetched |-> NoPass, other |-> NoPass]

RunInFetchedOrder ==
    /\ probe.fn = "order" /\ probe.op = "none"
    /\ probe' = [probe EXCEPT !.op = "fetched",
                     !.fetched = general_pass(probe.outs,
                                     [i \in 1..Len(probe.outs) |-> i])]
    /\ UNCHANGED PipelineVars

RunInOtherOrder ==
    /\ probe.fn = "order" /\ probe.op = "fetched"
    /\ probe' = [probe EXCEPT !.op = "both",
                     !.other = general_pass(probe.outs, probe.order)]
    /\ UNCHANGED PipelineVars

OrderNext == RunInFetchedOrder \/ RunInOtherOrder

SpecOrder == OrderInit /\ [][OrderNext]_vars

\* ------------------------------------------------------------------------
\* The literature adapter (PubMedClient.search, PubMedClient.fetch_abstracts):
\* one call, the environment fixing what each HTTP attempt meets.
\* ------------------------------------------------------------------------
MAX_RETRIES == 3

\* what an attempt can meet: a usable response, or an exception raised by
\* client.get, raise_for_status or the parsing of the body
SearchOutcomes ==
    {"ok", "ConnectError", "TimeoutException", "OSError", "ReadError",
     "HTTPStatusError", "JSONDecodeError"}
FetchOutcomes ==
    {"ok", "ConnectError", "TimeoutException", "OSError", "ReadError",
     "HTTPStatusError", "empty_text", "ParseError"}

\* an 'except' clause that retries after every exception
IsTransient_every_exception(outcome) == outcome # "ok" /\ outcome # "empty_text"

\* except (httpx.ConnectError, httpx.TimeoutException, OSError)
IsTransient(outcome) == outcome \in {"ConnectError", "TimeoutException", "OSError"}

\* one iteration of "for attempt in range(self.MAX_RETRIES)"; attempt is the
\* loop variable (from 0): [returned, result, sleeps]
pubmed_attempt(outcome, attempt) ==
    IF outcome = "ok"
    THEN [returned |-> TRUE, result |-> "data", sleeps |-> 0]
    ELSE IF IsTransient(outcome)
    THEN IF attempt < MAX_RETRIES - 1
         THEN [returned |-> FALSE, result |-> "none", sleeps |-> 1]
         ELSE [returned |-> TRUE, result |-> "empty", sleeps |-> 0]
    ELSE \* empty body, ET.ParseError, except Exception: return []
         [returned |-> TRUE, result |-> "empty", sleeps |-> 0]

PubmedInit ==
    /\ PipelineInit
    /\ \E call \in {"search", "fetch_abstracts"} :
        \E outcomes \in [1..MAX_RETRIES ->
                           IF call = "search" THEN SearchOutcomes
                           ELSE FetchOutcomes],
           no_pmids \in {FALSE, call = "fetch_abstracts"} :
            probe = [fn |-> "pubmed", call |-> call, no_pmids |-> no_pmids,
                     outcomes |-> outcomes, attempts |-> 0, sleeps |-> 0,
                     returned |-> FALSE, result |-> "none"]

\* 'if not pmids: return []' of fetch_abstracts
FetchNoPmids ==
    /\ probe.fn = "pubmed" /\ ~probe.returned
    /\ probe.no_pmids /\ probe.attempts = 0
    /\ probe' = [probe EXCEPT !.returned = TRUE, !.result = "empty"]
    /\ UNCHANGED PipelineVars

\* one HTTP attempt and what the loop does with it
PubmedAttempt ==
    /\ probe.fn = "pubmed" /\ ~probe.returned /\ ~probe.no_pmids
    /\ probe.attempts < MAX_RETRIES
    /\ LET r == pubmed_attempt(probe.outcomes[probe.attempts + 1], probe.attempts)
       IN  probe' = [probe EXCEPT !.attempts = probe.attempts + 1,
                         !.sleeps = probe.sleeps + r.sleeps,
                         !.returned = r.returned, !.result = r.result]
    /\ UNCHANGED PipelineVars

\* the 'return []' after the loop is never reached: the last iteration
\* returns whatever it meets
PubmedNext == FetchNoPmids \/ PubmedAttempt

SpecPubmed == PubmedInit /\ [][PubmedNext]_vars

\* ------------------------------------------------------------------------
\* The extraction adapter (YandexGPTClient.extract_parameters and
\* extract_cv_intra): one call; the environment fixes what each successive
\* HTTP attempt would meet and the JSON object a usable response carries.
\* ------------------------------------------------------------------------
LlmOutcomes ==
    {"ok", "ConnectError", "TimeoutException", "HTTPStatusError",
     "no_alternatives", "invalid_json"}

\* _request_json_completion for one POST: [raised, params]
request_json_completion(outcome, answer) ==
    IF outcome \in {"ConnectError", "TimeoutException", "HTTPStatusError"}
    THEN [raised |-> TRUE, params |-> O_empty]
    ELSE IF outcome \in {"no_alternatives", "invalid_json"}
    THEN [raised |-> FALSE, params |-> O_empty]
    ELSE [raised |-> FALSE, params |-> answer]

\* the try block of extract_parameters / extract_cv_intra: a single request,
\* every exception answered with {}
llm_extract(outcomes, answer) ==
    LET r == request_json_completion(outcomes[1], answer)
    IN  [attempts |-> 1,
         params |-> IF r.raised THEN O_empty ELSE r.params]

LlmInit ==
    /\ PipelineInit
    /\ probe \in [fn : {"llm"}, call : {"extract_parameters", "extract_cv_intra"},
                  outcomes : [1..MaxLlmAttempts -> LlmOutcomes],
                  answer : {O_cv25, O_cv40_half10},
                  op : {"none"}, attempts : {0}, params : {O_empty}]

CallLlmExtract ==
    /\ probe.fn = "llm" /\ probe.op = "none"
    /\ LET r == llm_extract(probe.outcomes, probe.answer)
       IN  probe' = [probe EXCEPT !.op = probe.call,
                         !.attempts = r.attempts, !.params = r.params]
    /\ UNCHANGED PipelineVars

LlmNext == CallLlmExtract

SpecLlm == LlmInit /\ [][LlmNext]_vars

\* ------------------------------------------------------------------------
\* The design-calculation endpoint (POST calculate_design), called up to
\* MaxRequests times for the same project.  tmax is left out of the request
\* (None), so no sampling plan is estimated; power and alpha are not read by
\* the calculation.
\* ------------------------------------------------------------------------
UnknownProject == "unknown_project"

DesignRequests ==
    [cv_intra : {Num(25), Num(40), NaN, PInf},
     dropout_rate : {Num(0), Num(10), Num(-1), NaN},
     screen_fail_rate : {Num(0), Num(100), Num(101)},
     t_half : {NoneV, Num(10)},
     project_id : {"", PIPE, UnknownProject}]

NoRequest ==
    [cv_intra |-> NoneV, dropout_rate |-> NoneV, screen_fail_rate |-> NoneV,
     t_half |-> NoneV, project_id |-> ""]

NoResponse == [status_code |-> 0, sample_size |-> 0, recruitment_size |-> 0]

StatusCodeFor_always_500(exc) == 500

\* 'except ValueError' answers 400, 'except Exception' answers 500
StatusCodeFor(exc) == IF exc = "ValueError" THEN 400 ELSE 500

HttpError(exc) ==
    [status_code |-> StatusCodeFor(exc), sample_size |-> 0,
     recruitment_size |-> 0]

\* math.ceil of a non-finite double: ValueError for NaN, OverflowError for
\* an infinity
CeilException(x) == IF x.k = "nan" THEN "ValueError" ELSE "OverflowError"

\* the dictionary written to project.design_parameters
CalculatedDesign(request, sample_size, recruitment_size, design_type, washout_days) ==
    [present |-> TRUE, sample_size |-> sample_size,
     recruitment_size |-> recruitment_size, design_type |-> design_type,
     cv_intra |-> request.cv_intra, dropout_rate |-> request.dropout_rate,
     screen_fail_rate |-> request.screen_fail_rate,
     washout_days |-> washout_days,
     critical_parameters |-> [CV_intra |-> request.cv_intra, Tmax |-> NoneV,
                              T12 |-> request.t_half]]

\* the handler: [response, write, design]; write tells whether
\* project.design_parameters is assigned and committed
calculate_design(request, row_found) ==
    LET ss == calculate_sample_size(request.cv_intra)
        rec == calculate_recruitment_sample_size(
                   ss.n, request.dropout_rate, request.screen_fail_rate)
        \* 'if request.t_half:' is false for None and for 0.0
        has_half == request.t_half.k # "none" /\ request.t_half # Num(0)
        washout == IF has_half THEN estimate_washout_period(request.t_half)
                   ELSE Ok(NoneV)
    IN  IF ~ss.ok
        THEN [response |-> HttpError(CeilException(request.cv_intra)),
              write |-> FALSE, design |-> NoDesign]
        ELSE IF ~rec.ok
        THEN [response |-> HttpError("ValueError"),
              write |-> FALSE, design |-> NoDesign]
        ELSE IF ~washout.ok
        THEN [response |-> HttpError(CeilException(request.t_half)),
              write |-> FALSE, design |-> NoDesign]
        ELSE [response |-> [status_code |-> 200, sample_size |-> ss.n,
                            recruitment_size |-> rec.n],
              write |-> request.project_id # "" /\ row_found,
              design |-> CalculatedDesign(request, ss.n, rec.n,
                                          ss.design_type, washout.f)]

DesignCalcInit ==
    /\ PipelineInit
    /\ probe = [fn |-> "calculate_design", calls |-> 0, request |-> NoRequest,
                before |-> NoDesign, out |-> NoResponse]

\* one request; probe.before keeps the project's design_parameters as they
\* were when the request arrived
CallCalculateDesign ==
    /\ probe.fn = "calculate_design"
    /\ probe.calls < MaxRequests
    /\ \E request \in DesignRequests :
         LET row_found == request.project_id = PIPE /\ project[PIPE].exists
             r == calculate_design(request, row_found)
         IN  /\ project' = IF r.write
                           THEN [project EXCEPT ![PIPE].design_parameters = r.design]
                           ELSE project
             /\ probe' = [probe EXCEPT !.calls = probe.calls + 1,
                              !.request = request,
                              !.before = project[PIPE].design_parameters,
                              !.out = r.response]
    /\ UNCHANGED <<store, pc, pmids, articles, idx, aggregated_params,
                   processed_pmids, cv_only, scored, eidx, search_ret,
                   design_ret, llm_calls, enrich_searches, general_pmids,
                   gate_had_cv, stage_calls, pdf_done>>

DesignCalcNext == CallCalculateDesign

SpecDesignCalc == DesignCalcInit /\ [][DesignCalcNext]_vars

\* ------------------------------------------------------------------------
\* The two ways a design dictionary gets its design_type, followed by the
\* compliance check on it: the dictionary generate_design builds, whose
\* type choose_design_type derives from the CV_intra it records, and the
\* dictionary the design-calculation endpoint stores, whose type is the one
\* calculate_sample_size returns.
\* ------------------------------------------------------------------------
DerivedCvInputs ==
    {Num(3), Num(5), Num(25), Num(30), Num(31), Num(40), Num(50), Num(51),
     Num(100), NaN, PInf}
DerivedHalfLifeInputs ==
    {NoneV, Num(0), Num(10), Num(LongHalfLife - 1), Num(LongHalfLife)}

\* a derivation that keeps the 2x2 crossover whatever the variability
DerivedDesign_always_2x2(cv_intra, t_half) ==
    LET ss == calculate_sample_size_for_design(cv_intra, S_2x2_crossover)
    IN  IF ~ss.ok THEN NoDesign
        ELSE StoredDesign(ss.n, cv_intra, ss.design_type, NoneV)

\* design_params of generate_design: design_type from choose_design_type
\* and calculate_sample_size_for_design, critical_parameters.CV_intra the
\* same cv_intra; no dictionary when a ceil raises.  These are the entries
\* the dictionary literal evaluates before its randomization_scheme entry,
\* where generate_design itself stops (see CalcHas)
DerivedDesign(cv_intra, t_half) ==
    LET chosen == choose_design_type(cv_intra, t_half)
        ss == calculate_sample_size_for_design(cv_intra, chosen)
        washout == IF t_half.k # "none" /\ FTruthy(t_half)
                   THEN estimate_washout_period(t_half)
                   ELSE Ok(NoneV)
    IN  IF ~ss.ok \/ ~washout.ok THEN NoDesign
        ELSE [StoredDesign(ss.n, cv_intra, ss.design_type, washout.f)
                  EXCEPT !.critical_parameters.T12 = t_half]

\* the request that hands the same values to the endpoint
DerivedRequest(cv_intra, t_half) ==
    [cv_intra |-> cv_intra, dropout_rate |-> Num(0),
     screen_fail_rate |-> Num(0), t_half |-> t_half, project_id |-> PIPE]

DerivedInit ==
    /\ PipelineInit
    /\ probe \in [fn : {"derived"}, cv_intra : DerivedCvInputs,
                  t_half : DerivedHalfLifeInputs, op : {"none"},
                  by : {""}, design : {NoDesign},
                  out : {[error |-> "", check |-> NoRegCheck]}]

BuildDerivedDesign ==
    /\ probe.fn = "derived" /\ probe.op = "none"
    /\ probe' = [probe EXCEPT !.op = "stored", !.by = "generate_design",
                     !.design = DerivedDesign(probe.cv_intra, probe.t_half)]
    /\ UNCHANGED PipelineVars

StoreCalculatedDesign ==
    /\ probe.fn = "derived" /\ probe.op = "none"
    /\ LET r == calculate_design(
                    DerivedRequest(probe.cv_intra, probe.t_half), TRUE)
       IN  probe' = [probe EXCEPT !.op = "stored", !.by = "calculate_design",
                         !.design = IF r.write THEN r.design ELSE NoDesign]
    /\ UNCHANGED PipelineVars

CheckDerivedCompliance ==
    /\ probe.fn = "derived" /\ probe.op = "stored"
    /\ probe' = [probe EXCEPT !.op = "checked",
                     !.out = check_compliance(probe.design)]
    /\ UNCHANGED PipelineVars

DerivedNext ==
    BuildDerivedDesign \/ StoreCalculatedDesign \/ CheckDerivedCompliance

SpecDerived == DerivedInit /\ [][DerivedNext]_vars

\* ------------------------------------------------------------------------
\* Report generation (ReportModule.generate_synopsis) for one project.  The
\* environment decides whether 'from design_module import DesignModule'
\* finds the module (it lives in the package core) and whether template.md
\* exists.  design_parameters is None or a dictionary written by
\* calculate_design (generate_design never writes one, its call of
\* randomization_scheme raises first).
\* ------------------------------------------------------------------------
ReportError(msg) == [success |-> FALSE, error |-> msg, file_written |-> FALSE]

\* CriticalParametersResponse requires the key cv_intra
CriticalParametersValid(cp) == "cv_intra" \in DOMAIN cp

\* DesignResultResponse(**design): the nested critical_parameters must
\* validate as well
DesignResultValid(design) ==
    /\ {"sample_size", "recruitment_size", "design_type", "cv_intra",
        "dropout_rate", "screen_fail_rate", "critical_parameters"}
           \subseteq DOMAIN design
    /\ CriticalParametersValid(design.critical_parameters)

\* the part of generate_synopsis after a design dictionary is at hand
synopsis_from_design(design, template_exists) ==
    IF ~DesignResultValid(design)
    THEN ReportError("validation error for DesignResultResponse")
    ELSE IF ~template_exists
    THEN ReportError("Template file not found")
    ELSE [success |-> TRUE, error |-> "", file_written |-> TRUE]

\* [result, design]: design is what generate_design committed, if it did
generate_synopsis(row_found, design_parameters, params, import_ok, template_exists) ==
    IF ~row_found
    THEN [result |-> ReportError("Project not found"),
          design |-> design_parameters]
    ELSE IF design_parameters.present
    THEN [result |-> synopsis_from_design(design_parameters, template_exists),
          design |-> design_parameters]
    ELSE IF ~import_ok
    THEN [result |-> ReportError("Design generation failed: No module named 'design_module'"),
          design |-> design_parameters]
    ELSE LET generated == generate_design(row_found, params)
         IN  IF generated.error # ""
             THEN [result |-> ReportError("Cannot generate design parameters"),
                   design |-> design_parameters]
             ELSE [result |-> synopsis_from_design(generated.design,
                                                   template_exists),
                   design |-> generated.design]

ReportStatuses ==
    {"design_failed", "searching_completed", "pdf_processed", "completed"}

ReportRequest(cv, dropout, half) ==
    [cv_intra |-> Num(cv), dropout_rate |-> Num(dropout),
     screen_fail_rate |-> Num(0), t_half |-> half, project_id |-> PIPE]

\* design_parameters as calculate_design leaves them
ReportDesigns ==
    {NoDesign} \cup
    { calculate_design(ReportRequest(cv, d, h), TRUE).design :
        cv \in {25, 40}, d \in {0, 10}, h \in {NoneV, Num(10)} }

ReportRows ==
    {<< >>} \cup
    { <<r>> : r \in [parameter : {S_CV_intra, S_Tmax},
                     value : {PyStr(JNum(25))}, is_reliable : BOOLEAN] }

ReportInit ==
    /\ PipelineInit
    /\ probe \in [fn : {"report"}, row_found : BOOLEAN,
                  status : ReportStatuses, design_parameters : ReportDesigns,
                  params : ReportRows, import_ok : BOOLEAN,
                  template_exists : BOOLEAN, op : {"none"},
                  out : {ReportError("")}, file_exists : {FALSE}]

CallGenerateSynopsis ==
    /\ probe.fn = "report" /\ probe.op = "none"
    /\ LET r == generate_synopsis(probe.row_found, probe.design_parameters,
                                  probe.params, probe.import_ok,
                                  probe.template_exists)
       IN  probe' = [probe EXCEPT !.op = "generate_synopsis",
                         !.out = r.result,
                         !.design_parameters = r.design,
                         !.file_exists = probe.file_exists \/ r.result.file_written]
    /\ UNCHANGED PipelineVars

ReportNext == CallGenerateSynopsis

SpecReport == ReportInit /\ [][ReportNext]_vars

\* ------------------------------------------------------------------------
\* Properties
\* ------------------------------------------------------------------------
FourDesigns == {S_2x2_crossover, S_3way_replicate, S_4way_replicate, S_Parallel}

\* C1: choose_design_type returns exactly one of the four designs for every
\* input; a half-life that is present and >= 336 hours gives the parallel
\* design whatever the CV; with the half-life absent or below 336 the
\* result is the 2x2 crossover for cv <= 30, the 3-way replicate for
\* 30 < cv <= 50 and the 4-way replicate for cv > 50.
C1_DesignChoice ==
    (probe.fn = "calc" /\ probe.op = "choose_design_type") =>
        LET cv == probe.cv_intra
            th == probe.t_half
            long == (th.k = "num" /\ th.n >= 336) \/ th.k = "inf"
            short == th.k = "none" \/ (th.k = "num" /\ th.n < 336)
        IN  /\ probe.out \in FourDesigns
            /\ long => probe.out = S_Parallel
            /\ (short /\ cv.k = "num" /\ cv.n <= 30) => probe.out = S_2x2_crossover
            /\ (short /\ cv.k = "num" /\ cv.n > 30 /\ cv.n <= 50)
                   => probe.out = S_3way_replicate
            /\ (short /\ cv.k = "num" /\ cv.n > 50) => probe.out = S_4way_replicate

\* a half-life of exactly 336 hours overrides a CV in the 4-way band
C1_Witness ==
    /\ probe.fn = "calc" /\ probe.op = "choose_design_type"
    /\ probe.t_half = Num(336) /\ probe.cv_intra = Num(60)
    /\ probe.out = S_Parallel

\* C2: for every cv_intra >= 0 and every design type
\* calculate_sample_size_for_design returns a sample size >= 12 that is
\* even unless the design is parallel; calculate_sample_size returns an
\* even sample size >= 12 with the design "2x2 crossover".
C2_SampleSizeShape ==
    LET cv == probe.cv_intra
        parallel == probe.design_type \in {S_Parallel, S_parallel_en}
    IN  /\ (probe.fn = "calc" /\ probe.op = "calculate_sample_size_for_design"
            /\ cv.k = "num" /\ cv.n >= 0) =>
               /\ probe.out.ok
               /\ probe.out.n >= 12
               /\ ~parallel => probe.out.n % 2 = 0
        /\ (probe.fn = "calc" /\ probe.op = "calculate_sample_size"
            /\ cv.k = "num" /\ cv.n >= 0) =>
               /\ probe.out.ok
               /\ probe.out.n >= 12
               /\ probe.out.n % 2 = 0
               /\ probe.out.design_type = S_2x2_crossover

\* a replicate design whose size was rounded above the floor of 12
C2_Witness ==
    /\ probe.fn = "calc" /\ probe.op = "calculate_sample_size_for_design"
    /\ probe.design_type = S_3way_replicate
    /\ probe.cv_intra.k = "num" /\ probe.cv_intra.n >= 0
    /\ probe.out.ok /\ probe.out.n > 12 /\ probe.out.n % 2 = 0

\* the stored observations generate_design would read as CV_intra
ReliableCvRows ==
    SelectSeq(ProjectRows(PIPE),
        LAMBDA r : r.is_reliable
                   /\ Design_canonicalize_param_name(r.parameter) = S_CV_intra)

SearchStageOver == pc \in {"search_returned", "design_returned", "done"}

\* C3: when the search stage, enrichment pass included, ends with no
\* reliable CV_intra observation stored for the project, search_and_extract
\* has returned without an error, generate_design returns an error without
\* having computed a sample size and without writing design_parameters, and
\* the pipeline ends with status design_failed.
C3_NoCvDesignFails ==
    (SearchStageOver /\ ~IsEmptyList(articles) /\ ReliableCvRows = << >>) =>
        /\ search_ret.returned /\ search_ret.error = ""
        /\ design_ret.returned =>
               /\ design_ret.error # ""
               /\ ~design_ret.computed_sample_size
        /\ ~project[PIPE].design_parameters.present
        /\ pc = "design_returned" => design_ret.returned
        /\ pc = "done" => project[PIPE].status = "design_failed"

\* the enrichment pass ran, other parameters were stored, none of them a
\* CV_intra, and the pipeline has ended
C3_Witness ==
    /\ pc = "done"
    /\ enrich_searches = 1
    /\ \E i \in 1..Len(llm_calls) : llm_calls[i][1] = "cv_only"
    /\ ProjectRows(PIPE) # << >>
    /\ ReliableCvRows = << >>
    /\ design_ret.error = "CV_intra not found - cannot calculate sample size"
    /\ project[PIPE].status = "design_failed"
    /\ ~project[PIPE].design_parameters.present

\* float(value) of a stored row gives a finite number
ParsesFinite(value) ==
    PyFloatOfStr(value).ok /\ IsFinite(PyFloatOfStr(value).f)

\* C4: when the project holds at least one reliable, numeric CV_intra
\* observation (and, here, every stored value of the project is a finite
\* number), generate_design returns a design without an error, with
\* sample_size, recruitment_size, design_type, design_explanation and
\* randomization_scheme, stores it as design_parameters, and the pipeline
\* runs the regulatory check and ends with status completed.
C4_DesignCompletes ==
    (/\ pc = "done"
     /\ search_ret.error = ""
     /\ ReliableCvRows # << >>
     /\ \A i \in 1..Len(store) : ParsesFinite(store[i].value)) =>
        /\ design_ret.returned /\ design_ret.error = ""
        /\ project[PIPE].design_parameters.present
        /\ project[PIPE].design_parameters.sample_size >= MinSampleSize
        /\ project[PIPE].design_parameters.randomization_scheme # ""
        /\ project[PIPE].regulatory_check.present
        /\ project[PIPE].status = "completed"

\* C5: when the general search returns no identifiers, or the fetch returns
\* no articles, search_and_extract returns the error "No articles found" or
\* "Failed to fetch abstracts", has called the extraction adapter zero
\* times, has added no parameter record to the store and has left the
\* project's status and search_results as they were.
C5_EmptySearchReturnsError ==
    (pc = "search_returned" /\ (IsEmptyList(pmids) \/ IsEmptyList(articles))) =>
        /\ search_ret.returned
        /\ search_ret.error = IF IsEmptyList(pmids) THEN "No articles found"
                               ELSE "Failed to fetch abstracts"
        /\ llm_calls = << >>
        /\ enrich_searches = 0
        /\ store = << >>
        /\ project[PIPE] = NewProject("searching")

\* identifiers were found but no abstract could be fetched
C5_Witness ==
    /\ pc = "search_returned"
    /\ ~IsEmptyList(pmids) /\ IsEmptyList(articles)
    /\ search_ret = ErrorReturn("Failed to fetch abstracts")
    /\ "search" \in {stage_calls[i] : i \in 1..Len(stage_calls)}

GeneralPassOver ==
    pc \in {"enrich", "save"} \/ (SearchStageOver /\ ~IsEmptyList(articles))

\* C6: in one run of search_and_extract the targeted search is issued
\* exactly once when CV_intra is absent from the aggregated map at the end
\* of the general pass and never when it is present (and never before the
\* general pass has ended); every adapter call of the enrichment pass is for
\* an identifier the general pass did not process.
C6_EnrichmentOnce ==
    /\ ~GeneralPassOver => enrich_searches = 0
    /\ GeneralPassOver => enrich_searches = IF gate_had_cv THEN 0 ELSE 1
    /\ \A i \in 1..Len(llm_calls) :
           llm_calls[i][1] = "cv_only" =>
               /\ ~gate_had_cv
               /\ llm_calls[i][2] \notin general_pmids
               /\ \A j \in 1..Len(llm_calls) :
                      llm_calls[j][1] = "general" => j < i

\* the general pass processed an article without finding CV_intra and the
\* enrichment pass then extracted from another article
C6_Witness ==
    /\ pc = "save"
    /\ enrich_searches = 1
    /\ general_pmids # {}
    /\ \E i \in 1..Len(llm_calls) :
           llm_calls[i][1] = "cv_only" /\ llm_calls[i][2] \notin general_pmids

\* the number of rows stored for the pipeline's project under a name
StoredCount(name) ==
    Len(SelectSeq(ProjectRows(PIPE), LAMBDA r : r.parameter = name))

\* the number of observations the final aggregated map holds under a name
MapCount(name) ==
    Len(SelectSeq(aggregated_params, LAMBDA e : e.name = name /\ e.values # << >>))

\* C7: in the summary search_and_extract writes, critical_coverage.CV_intra
\* is true exactly when the final aggregated map holds at least one CV_intra
\* observation, missing_critical is <<CV_intra>> exactly when it holds none
\* and empty otherwise, and parameters_found lists every stored parameter
\* once with the number of observations stored for it.
C7_SummaryMatchesMap ==
    LET sr == project[PIPE].search_results
        pf == sr.parameters_found
    IN  sr.present =>
            /\ sr.critical_coverage <=> MapCount(S_CV_intra) > 0
            /\ sr.missing_critical =
                   IF MapCount(S_CV_intra) = 0 THEN <<S_CV_intra>> ELSE << >>
            /\ \A i \in 1..Len(pf) : pf[i][2] = StoredCount(pf[i][1])
            /\ \A i, j \in 1..Len(pf) : pf[i][1] = pf[j][1] => i = j
            /\ \A k \in 1..Len(store) :
                   \E i \in 1..Len(pf) : pf[i][1] = store[k].parameter

\* a summary without CV_intra next to one parameter observed twice
C7_Witness ==
    LET sr == project[PIPE].search_results
    IN  /\ sr.present
        /\ ~sr.critical_coverage
        /\ sr.missing_critical = <<S_CV_intra>>
        /\ \E i \in 1..Len(sr.parameters_found) : sr.parameters_found[i][2] = 2

\* C8: every parameter record in the store, whether the literature search
\* or the PDF upload put it there, carries a canonical parameter name (one
\* the canonicalizer leaves as it is, never a raw alias) and was made from
\* a candidate the Evidence Validator accepts.
C8_StoredRecordsValidated ==
    \A i \in 1..Len(store) :
        /\ Parsing_canonicalize_param_name(store[i].parameter) = store[i].parameter
        /\ is_valid_extracted_param(store[i].cand)

\* C9: the Evidence Validator accepts a candidate exactly when it is an
\* object, its found flag is truthy and its value parses as a finite
\* floating-point number; a null, a non-numeric text, NaN and an infinity
\* as value are rejected.
C9_ValidatorFiniteOnly ==
    (probe.fn = "validator" /\ probe.op = "is_valid") =>
        LET c == probe.param_data
        IN  probe.out <=>
                /\ c.shape = "dict"
                /\ Truthy(c.found)
                /\ PyFloat(c.value).ok
                /\ IsFinite(PyFloat(c.value).f)

\* the values of the reliable observations whose canonical name is the
\* parameter asked for and whose stored text parses as a number
RemainingValues(params, param_name) ==
    { PyFloatOfStr(params[i].value).f :
        i \in { j \in 1..Len(params) :
                  /\ Design_canonicalize_param_name(params[j].parameter) = param_name
                  /\ params[j].is_reliable
                  /\ PyFloatOfStr(params[j].value).ok } }

\* C10: the Conservative Estimator never fails: it returns None when no
\* reliable observation of the parameter with a parsing value remains, and
\* otherwise one of the remaining values that none of them exceeds;
\* observations that are unreliable, of another parameter or with a value
\* that does not parse leave the result as it would be without them.
C10_MostConservative ==
    (probe.fn = "estimator" /\ probe.op = "most_conservative") =>
        LET rem == RemainingValues(probe.params, probe.param_name)
        IN  /\ probe.out.ok
            /\ rem = {} => probe.out.f = NoneV
            /\ rem # {} =>
                   /\ probe.out.f \in rem
                   /\ \A v \in rem : ~FGt(v, probe.out.f)

\* C11: the orchestrator's canonicalizer gives every known alias, once
\* trimmed, lower-cased and with blanks replaced by underscores, its
\* canonical name; it returns CV_intra, T1/2, Cmax, AUC and Tmax unchanged;
\* and applying it to its own result changes nothing, for unknown names
\* and empty input too.
C11_CanonicalizeIdempotent ==
    (probe.fn = "canon" /\ probe.op \in {"once", "twice"}) =>
        LET tbl == Parsing_PARAM_NAME_ALIASES
            norm == ReplaceSpace(Lower(Strip(probe.raw_name)))
        IN  /\ \A i \in 1..Len(tbl) : norm = tbl[i][1] => probe.once = tbl[i][2]
            /\ probe.raw_name \in CanonicalNames => probe.once = probe.raw_name
            /\ probe.op = "twice" => probe.twice = probe.once

\* " HALF LIFE" was resolved to T1/2 and resolved again
C11_Witness ==
    /\ probe.fn = "canon" /\ probe.op = "twice"
    /\ probe.raw_name = <<" ">> \o Spaced(UpperCased(S_half_life))
    /\ probe.once = S_T12 /\ probe.twice = S_T12

\* C12: the relevance score is 2 for "bioequivalence", plus 2 for
\* "crossover" or "cross-over", plus 1 for "healthy volunteer" or "healthy
\* subjects", plus 3 once when any of the four intra-subject markers
\* occurs, plus 2 for "coefficient of variation", plus 1 for "variability"
\* without "inter-individual"; it never exceeds 11.
C12_ScoreSum ==
    (probe.fn = "score" /\ probe.op = "cv_signal_score") =>
        LET t == probe.text
            expected ==
                (IF "bioequivalence" \in t THEN 2 ELSE 0)
                + (IF {"crossover", "cross-over"} \cap t # {} THEN 2 ELSE 0)
                + (IF {"healthy volunteer", "healthy subjects"} \cap t # {}
                   THEN 1 ELSE 0)
                + (IF IntraMarkers \cap t # {} THEN 3 ELSE 0)
                + (IF "coefficient of variation" \in t THEN 2 ELSE 0)
                + (IF "variability" \in t /\ "inter-individual" \notin t
                   THEN 1 ELSE 0)
        IN  probe.out = expected /\ probe.out <= 11

RecruitCalled ==
    probe.fn = "recruit" /\ probe.op = "calculate_recruitment_sample_size"

\* a rate is below 0 or above 100
RateOutOfRange(r) == FLt(r, Num(0)) \/ FGt(r, Num(100))

\* C13: calculate_recruitment_sample_size raises, returning nothing, when
\* dropout_rate or screen_fail_rate is below 0 or above 100 and when
\* (1 - dropout_rate/100) * (1 - screen_fail_rate/100) <= 0; for every
\* other input it returns a value without raising.
C13_RecruitRejectsExactly ==
    RecruitCalled =>
        LET d == probe.dropout_rate
            s == probe.screen_fail_rate
            rejected ==
                \/ RateOutOfRange(d) \/ RateOutOfRange(s)
                \/ (d.k = "num" /\ s.k = "num" /\ (100 - d.n) * (100 - s.n) <= 0)
        IN  probe.out.ok <=> ~rejected

\* C14: for every sample_size >= 0 and every accepted pair of rates the
\* result is the exact ceiling of
\* sample_size / ((1 - dropout_rate/100) * (1 - screen_fail_rate/100)); it is
\* at least sample_size, equals sample_size for rates 0 and 0, and is 34
\* for (24, 10, 20).
C14_RecruitExactCeiling ==
    (RecruitCalled /\ probe.out.ok) =>
        LET n == probe.sample_size
            a == (100 - probe.dropout_rate.n) * (100 - probe.screen_fail_rate.n)
        IN  /\ probe.out.n = CeilDiv(10000 * n, a)
            /\ probe.out.n >= n
            /\ a = 10000 => probe.out.n = n
            /\ (n = 24 /\ probe.dropout_rate = Num(10)
                 /\ probe.screen_fail_rate = Num(20)) => probe.out.n = 34

RegChecked ==
    probe.fn = "regulatory" /\ probe.op = "check_compliance" /\ probe.design.present

\* C15: the compliance check returns is_compliant true exactly when the
\* list of critical issues is empty, whatever the warnings; a design with
\* sample_size below 12 gets is_compliant false and the critical issue
\* that names the minimum of 12; a design with sample_size >= 12 gets no
\* critical issue.
C15_CompliantIffNoIssues ==
    RegChecked =>
        LET c == probe.out.check
        IN  /\ probe.out.error = "" /\ c.present
            /\ c.is_compliant <=> c.critical_issues = << >>
            /\ probe.design.sample_size < 12 =>
                   /\ ~c.is_compliant
                   /\ c.critical_issues = <<"sample size below minimum of 12">>
            /\ probe.design.sample_size >= 12 => c.critical_issues = << >>

\* a design of 13 subjects is compliant although two warnings were raised
C15_Witness ==
    /\ RegChecked
    /\ probe.design.sample_size = 13
    /\ probe.out.check.is_compliant
    /\ Len(probe.out.check.warnings) = 2

\* C16: each warning rule of the compliance check fires exactly when its
\* own condition holds: CV_intra present and > 50; CV_intra present and
\* < 5, 0 included; CV_intra > 30 with the 2x2 crossover; washout_days
\* > 90.  With CV_intra absent the three CV rules are skipped and no error
\* is returned.
C16_WarningRules ==
    RegChecked =>
        LET cv == probe.design.critical_parameters.CV_intra
            w == probe.design.washout_days
            has_cv == cv.k # "none"
            e1 == IF has_cv /\ FGt(cv, Num(50))
                  THEN <<"high variability">> ELSE << >>
            e2 == IF has_cv /\ FLt(cv, Num(5))
                  THEN <<"very low variability">> ELSE << >>
            e3 == IF has_cv /\ FGt(cv, Num(30))
                     /\ probe.design.design_type = S_2x2_crossover
                  THEN <<"high variability with 2x2 crossover">> ELSE << >>
            e4 == IF w.k # "none" /\ FGt(w, Num(90))
                  THEN <<"very long washout">> ELSE << >>
        IN  /\ probe.out.error = ""
            /\ probe.out.check.warnings = e1 \o e2 \o e3 \o e4

\* the stages of the full pipeline in their order
StageOrder == <<"search", "design", "regulatory">>

\* C17: the stages of the full pipeline are invoked in the order search,
\* design generation, regulatory check, each at most once; design
\* generation is invoked only after the search stage returned without an
\* error, the regulatory check only after design generation returned without
\* an error; when a stage reported an error no later stage has run and the
\* pipeline ends with the project's status at that stage's failure status.
C17_StagesInOrder ==
    /\ Len(stage_calls) <= Len(StageOrder)
    /\ stage_calls = SubSeq(StageOrder, 1, Len(stage_calls))
    /\ Len(stage_calls) >= 2 =>
          search_ret.returned /\ search_ret.error = ""
    /\ Len(stage_calls) >= 3 =>
          design_ret.returned /\ design_ret.error = ""
    /\ (pc = "done" /\ search_ret.returned /\ search_ret.error # "") =>
          /\ stage_calls = <<"search">>
          /\ project[PIPE].status = "search_failed"
    /\ (pc = "done" /\ design_ret.returned /\ design_ret.error # "") =>
          /\ stage_calls = <<"search", "design">>
          /\ project[PIPE].status = "design_failed"
    /\ (pc = "done" /\ Len(stage_calls) = 3
            /\ ~project[PIPE].regulatory_check.present) =>
          project[PIPE].status = "regulatory_check_failed"

\* the search stage succeeded, design generation reported an error, and the
\* pipeline stopped with status design_failed
C17_Witness ==
    /\ pc = "done"
    /\ search_ret.returned /\ search_ret.error = ""
    /\ design_ret.returned /\ design_ret.error # ""
    /\ stage_calls = <<"search", "design">>
    /\ project[PIPE].status = "design_failed"

\* the pipeline function has ended, by returning or by raising
PipelineOver == pc \in {"done", "raised"}

TerminalStatuses ==
    {"search_failed", "design_failed", "regulatory_check_failed", "failed",
     "completed"}

\* C18: every run of the full pipeline ends with the project's status at
\* search_failed, design_failed, regulatory_check_failed, failed or
\* completed, and no exception leaves the pipeline function, the run for a
\* project whose row cannot be loaded included.
C18_EndsTerminalNoEscape ==
    PipelineOver =>
        /\ pc # "raised"
        /\ project[PIPE].status \in TerminalStatuses
\* a request to calculate_design has been answered
DesignCalcAnswered == probe.fn = "calculate_design" /\ probe.calls > 0

\* the request reached calculate_recruitment_sample_size, which rejected its
\* dropout or screen-fail rate
RatesRejected ==
    LET ss == calculate_sample_size(probe.request.cv_intra)
    IN  /\ ss.ok
        /\ ~calculate_recruitment_sample_size(
                ss.n, probe.request.dropout_rate,
                probe.request.screen_fail_rate).ok

\* C19: when calculate_recruitment_sample_size rejects the dropout or
\* screen-fail rate of a design-calculation request, the request is answered
\* with a validation error (HTTP 400) and the project's stored
\* design_parameters are exactly what they were before the request.
C19_RejectedRequestWritesNothing ==
    (DesignCalcAnswered /\ RatesRejected) =>
        /\ probe.out.status_code = 400
        /\ project[PIPE].design_parameters = probe.before

\* a request naming the project, with a rejected rate, arrived after an
\* earlier request had stored a design for that project
C19_Witness ==
    /\ DesignCalcAnswered /\ RatesRejected
    /\ probe.request.project_id = PIPE
    /\ probe.before.present
    /\ probe.out.status_code = 400
    /\ project[PIPE].design_parameters = probe.before
\* generate_synopsis has returned
ReportGenerated == probe.fn = "report" /\ probe.op = "generate_synopsis"

\* C20: for an existing project with status design_failed, no stored
\* design_parameters and no parameter records, generate_synopsis returns
\* success true and the output file exists afterwards.
C20_FailedDesignReportSucceeds ==
    (/\ ReportGenerated
     /\ probe.row_found
     /\ probe.status = "design_failed"
     /\ ~probe.design_parameters.present
     /\ probe.params = << >>) =>
        /\ probe.out.success
        /\ probe.file_exists

\* the divisor of the variance factor the rule assigns to a design name
\* that choose_design_type returns, and to an unrecognized name
RuleDivisor(design_type) ==
    IF design_type = S_3way_replicate THEN 3
    ELSE IF design_type = S_4way_replicate THEN 4
    ELSE IF design_type = S_Parallel THEN 1
    ELSE 2

\* C21: calculate_sample_size_for_design uses the variance factor 1/2 for the
\* 2x2 crossover and for an unrecognized design name, 1/3 for the 3-way
\* replicate, 1/4 for the 4-way replicate and 1 for the parallel design
\* under the name choose_design_type returns; it rounds with ceil(n_raw)
\* only for the parallel design and with ceil(n_raw / 2) * 2 otherwise
\* (then raises the result to 12), and returns the caller's design_type
\* unchanged.
C21_FactorAndRounding ==
    (/\ probe.fn = "calc" /\ probe.op = "calculate_sample_size_for_design"
     /\ probe.cv_intra.k = "num"
     /\ probe.design_type \in FourDesigns \cup {S_unknown}) =>
        LET d == RuleDivisor(probe.design_type)
            raw == NUnroundedE6(probe.cv_intra.n, d)
            n == IF probe.design_type = S_Parallel
                 THEN CeilDiv(raw, 1000000)
                 ELSE CeilDiv(raw, 2000000) * 2
        IN  /\ probe.out.ok
            /\ probe.out.n = (IF n > 12 THEN n ELSE 12)
            /\ probe.out.design_type = probe.design_type

\* the parallel design under its Russian name with a CV whose size is odd
\* and above the floor
C21_Witness ==
    /\ probe.fn = "calc" /\ probe.op = "calculate_sample_size_for_design"
    /\ probe.design_type = S_Parallel
    /\ probe.cv_intra.k = "num"
    /\ probe.out.ok /\ probe.out.n > 12 /\ probe.out.n % 2 = 1
    /\ probe.out.design_type = S_Parallel

\* the template of design_explanation that describes a design
TemplateOf(design_type) ==
    IF design_type = S_Parallel THEN "long_half_life"
    ELSE IF design_type = S_2x2_crossover THEN "cv_le_30"
    ELSE IF design_type = S_3way_replicate THEN "cv_30_50"
    ELSE "cv_gt_50"

\* C22: for every cv_intra and t_half, design_explanation takes the branch
\* (long half-life, CV <= 30, 30 < CV <= 50, CV > 50) that describes the
\* design choose_design_type returns on the same inputs.
C22_ExplanationMatchesDesign ==
    (probe.fn = "calc" /\ probe.op = "design_explanation") =>
        /\ probe.out.design_type \in FourDesigns
        /\ probe.out.design_explanation = TemplateOf(probe.out.design_type)

\* a CV of exactly 30 with a half-life just below two weeks: the 2x2
\* crossover with the CV <= 30 template
C22_Witness ==
    /\ probe.fn = "calc" /\ probe.op = "design_explanation"
    /\ probe.cv_intra = Num(30) /\ probe.t_half = Num(LongHalfLife - 1)
    /\ probe.out.design_type = S_2x2_crossover
    /\ probe.out.design_explanation = "cv_le_30"

\* C23: calculate_recruitment_sample_size rejects every pair of rates with
\* dropout_rate + screen_fail_rate >= 100, computing no recruitment size.
C23_JointLossRejected ==
    (/\ RecruitCalled
     /\ probe.dropout_rate.k = "num" /\ probe.screen_fail_rate.k = "num"
     /\ probe.dropout_rate.n + probe.screen_fail_rate.n >= 100) =>
        ~probe.out.ok

EnrichReturned == probe.fn = "enrich" /\ probe.op = "extract_missing_cv_intra"

\* identifiers of the articles the adapter was invoked on
InvokedPmids == { probe.out.calls[i][2] : i \in 1..Len(probe.out.calls) }

\* C24: in the enrichment pass the adapter is invoked, in CV-only mode, on
\* at most 10 articles, each of them fetched; every article it is invoked
\* on scores at least as high as every fetched article it is not invoked
\* on; and the map the pass returns has no key other than CV_intra.
C24_EnrichmentTopTen ==
    EnrichReturned =>
        /\ Len(probe.out.calls) <= 10
        /\ \A i \in 1..Len(probe.out.calls) : probe.out.calls[i][1] = "cv_only"
        /\ \A i \in 1..Len(probe.fetched) :
             probe.fetched[i].pmid \notin InvokedPmids =>
                \A j \in 1..Len(probe.fetched) :
                    probe.fetched[j].pmid \in InvokedPmids =>
                        cv_signal_score(probe.fetched[j].text)
                            >= cv_signal_score(probe.fetched[i].text)
        /\ InvokedPmids \subseteq
               { probe.fetched[i].pmid : i \in 1..Len(probe.fetched) }
        /\ \A i \in 1..Len(probe.out.aggregated) :
             probe.out.aggregated[i].name = S_CV_intra

\* more than 10 articles were fetched, 10 were processed, an answer carried
\* a half-life besides the CV, and only CV_intra observations came back
C24_Witness ==
    /\ EnrichReturned
    /\ Len(probe.fetched) > 10
    /\ Len(probe.out.calls) = 10
    /\ probe.pattern[0] = O_cv40_half10
    /\ Len(probe.out.aggregated) = 1
    /\ probe.out.aggregated[1].name = S_CV_intra

\* the observations made from the accepted candidates of one answer that
\* belong to a parameter, in the order of the answer
AcceptedFor(out, pmid, name) ==
    LET sel == SelectSeq(out,
                   LAMBDA pr : /\ Parsing_canonicalize_param_name(pr[1]) = name
                               /\ is_valid_extracted_param(pr[2]))
    IN  [i \in 1..Len(sel) |-> Entry(sel[i][2], pmid)]

\* the accepted candidates of the first n articles of the general pass
RECURSIVE AcceptedGeneral(_, _, _)
AcceptedGeneral(outs, n, name) ==
    IF n = 0 THEN << >>
    ELSE AcceptedGeneral(outs, n - 1, name) \o AcceptedFor(outs[n], n, name)

\* the accepted CV_intra candidates of the articles of the enrichment pass
RECURSIVE AcceptedEnrichment(_, _)
AcceptedEnrichment(top, pattern) ==
    IF top = << >> THEN << >>
    ELSE AcceptedFor(pattern[Head(top).pmid % 2], Head(top).pmid, S_CV_intra)
         \o AcceptedEnrichment(Tail(top), pattern)

AcceptedSoFar(name) ==
    AcceptedGeneral(probe.outs, probe.done, name)
    \o (IF probe.enriched /\ name = S_CV_intra
        THEN AcceptedEnrichment(
                 SortByScore(EnrichmentArticles(1..probe.done)), probe.pattern)
        ELSE << >>)

\* C25: during aggregation the evidence map only grows: a merge keeps every
\* observation already in the map, unmodified and in its place, and appends
\* the new ones; after any sequence of merges the observations under a
\* parameter are exactly the accepted candidates for it, in the order they
\* were accepted (observations with equal values from different articles
\* are all kept), and no parameter has two keys.
C25_MapOnlyGrows ==
    probe.fn = "merge" =>
        /\ \A i \in 1..Len(probe.target) :
             /\ probe.target[i].values = AcceptedSoFar(probe.target[i].name)
             /\ probe.target[i].values # << >>
             /\ \A j \in 1..Len(probe.target) :
                    probe.target[j].name = probe.target[i].name => j = i
        /\ \A name \in CanonicalNames :
             Len(MapGet(probe.target, name)) = Len(AcceptedSoFar(name))

\* two articles reported the same CV value: both observations are in the map
C25_Witness ==
    /\ probe.fn = "merge" /\ probe.done = 2
    /\ Len(MapGet(probe.target, S_CV_intra)) = 2
    /\ MapGet(probe.target, S_CV_intra)[1].value
           = MapGet(probe.target, S_CV_intra)[2].value
    /\ MapGet(probe.target, S_CV_intra)[1].pmid
           # MapGet(probe.target, S_CV_intra)[2].pmid

\* how many times x occurs in a sequence
Occurrences(s, x) == Cardinality({ i \in 1..Len(s) : s[i] = x })

\* two maps hold the same multiset of observations under every parameter
SameObservations(a, b) ==
    /\ { a[i].name : i \in 1..Len(a) } = { b[i].name : i \in 1..Len(b) }
    /\ \A i \in 1..Len(a) :
         LET va == a[i].values
             vb == MapGet(b, a[i].name)
         IN  /\ Len(va) = Len(vb)
             /\ \A k \in 1..Len(va) :
                    Occurrences(va, va[k]) = Occurrences(vb, va[k])

BothOrdersRun == probe.fn = "order" /\ probe.op = "both"

\* C26: for fixed articles and fixed extraction results, every processing
\* order yields the same multiset of observations per parameter, the same
\* decision whether to run the enrichment pass, and the same conservative
\* estimates of CV_intra, Tmax and T1/2.
C26_OrderInsensitive ==
    BothOrdersRun =>
        /\ SameObservations(probe.fetched.aggregated, probe.other.aggregated)
        /\ probe.fetched.enrich = probe.other.enrich
        /\ probe.fetched.cv_intra = probe.other.cv_intra
        /\ probe.fetched.tmax = probe.other.tmax
        /\ probe.fetched.t_half = probe.other.t_half

\* connection error, timeout or OS-level error
TransientFailure(outcome) ==
    outcome \in {"ConnectError", "TimeoutException", "OSError"}

\* C27: a call of the literature adapter makes at most 3 HTTP attempts; an
\* attempt after the first is made only after a connection error, timeout
\* or OS-level error; any other failure ends the call at that attempt with
\* an empty result; after the third transient failure the call returns an
\* empty result; the call never stops without returning.
C27_BoundedRetry ==
    probe.fn = "pubmed" =>
        LET n == probe.attempts
            last == probe.outcomes[n]
        IN  /\ n <= 3
            /\ \A i \in 1..(n - 1) : TransientFailure(probe.outcomes[i])
            /\ (n >= 1 /\ last # "ok" /\ ~TransientFailure(last)) =>
                   probe.returned /\ probe.result = "empty"
            /\ (n = 3 /\ TransientFailure(last)) =>
                   probe.returned /\ probe.result = "empty"
            /\ (n >= 1 /\ last = "ok") =>
                   probe.returned /\ probe.result = "data"
            /\ (~probe.returned) => n < 3
            /\ probe.no_pmids => n = 0
            /\ probe.returned => probe.result \in {"empty", "data"}

\* three transient failures in a row: three attempts, two waits, empty result
C27_Witness ==
    /\ probe.fn = "pubmed" /\ probe.call = "fetch_abstracts"
    /\ probe.attempts = 3
    /\ \A i \in 1..3 : TransientFailure(probe.outcomes[i])
    /\ probe.sleeps = 2
    /\ probe.returned /\ probe.result = "empty"

LlmReturned == probe.fn = "llm" /\ probe.op # "none"

\* connection error or timeout
LlmTransient(outcome) == outcome \in {"ConnectError", "TimeoutException"}

\* C28: a transient network failure of an extraction adapter call is
\* retried: when the first attempt meets a connection error or timeout and
\* the next attempt would meet a usable response, the call makes that
\* attempt and returns the article's parameters, not an empty result.
C28_TransientRetried ==
    (/\ LlmReturned
     /\ LlmTransient(probe.outcomes[1])
     /\ probe.outcomes[2] = "ok") =>
        /\ probe.attempts = 2
        /\ probe.params = probe.answer

\* C29: the design module's canonicalizer and the orchestrator's return
\* the same canonical name for every raw parameter name, and a row stored
\* under a raw name is found by the conservative estimator under the
\* orchestrator's canonical name for it.
C29_CanonicalizersAgree ==
    (probe.fn = "alias" /\ probe.op = "done") =>
        /\ probe.design_name = probe.parsing_name
        /\ probe.estimate = Ok(Num(10))

DerivedChecked ==
    probe.fn = "derived" /\ probe.op = "checked" /\ probe.design.present

\* check 3 of check_compliance has fired
HasCrossoverWarning(out) ==
    \E i \in 1..Len(out.check.warnings) :
        out.check.warnings[i] = "high variability with 2x2 crossover"

====
